---- MODULE Spec2Model ----
(***************************************************************************)
(* Connection/session registry and session handler of chatapi.             *)
(*                                                                         *)
(* Two registries exist in the source and both are modelled:               *)
(*   - the Socket.IO registry of app/sockets/sockets.py (module-level      *)
(*     dicts active_connections, session_users, user_rooms, and the        *)
(*     connect / disconnect event handlers), specification SpecSio;        *)
(*   - the ConnectionManager of app/sockets/manager.py driven by the raw   *)
(*     WebSocket endpoint of app/api/api_v1/routes/websocket.py,           *)
(*     specification SpecWs.                                               *)
(*                                                                         *)
(* Both run on one asyncio event loop: code between two suspending awaits  *)
(* is one atomic action, and every suspending await (database call,        *)
(* Socket.IO emit / disconnect, lock acquisition, task join) is a point    *)
(* where any other handler may run.                                        *)
(***************************************************************************)
EXTENDS Integers, Sequences, FiniteSets, TLC

\* ------------------------------------------------------------------ bounds
MaxSids == 3            \* Socket.IO sessions (sids) that ever connect
MaxInFlight == 2        \* connect handlers running at the same time
MaxConns == 2           \* raw WebSocket connections that are ever accepted
MaxFrames == 2          \* text frames a client sends after its handshake
MaxMsgs == 2            \* send_message frames an endpoint processes
MaxNtfs == 1            \* notification rows
MaxJobs == 1            \* jobs waiting in the notifications queue
MaxAttempts == 2        \* sends or recorded attempts after which nothing more is triggered
MaxWebhookEvents == 2   \* webhook events handed to the webhook tasks
MaxRetryCount == 6      \* largest retry_count a webhook retry is called with

\* Notification.max_retry_attempts column default
DefaultMaxRetryAttempts == 3

\* max_retries of retry_failed_webhook
WebhookMaxRetries == 5
Sids == 1..MaxSids
NoSid == 0
Conns == 1..MaxConns
NoConn == 0

\* ------------------------------------------------------- tenants and users
Users == {"u1", "u2"}
Clients == {"cA", "cB"}
Rooms == {"r1"}
NoClient == "no_client"
Missing == "missing"
\* the value standing for "no entry" in a dict whose values are sets
Absent == {"absent"}

\* api keys known to the client service: one master key per client and one
\* scoped key issued by client cA to user u1
ApiKeys == {"master_cA", "master_cB", "scoped_cA_u1", "invalid"}
NoAuth == [user_id |-> Missing, api_key |-> Missing]
\* the auth dicts clients connect with: a user of each tenant under the
\* tenant's master key, a second user of cA, a scoped-key holder who names
\* another user, and the four ways of failing validation
AuthInputs ==
    {[user_id |-> "u1", api_key |-> "master_cA"],
     [user_id |-> "u1", api_key |-> "master_cB"],
     [user_id |-> "u2", api_key |-> "master_cA"],
     [user_id |-> "u2", api_key |-> "scoped_cA_u1"],
     [user_id |-> "u1", api_key |-> "invalid"],
     [user_id |-> Missing, api_key |-> "master_cA"],
     [user_id |-> "u1", api_key |-> Missing],
     NoAuth}

\* ClientService.verify_master_api_key: the client owning the key, or none
verify_master_api_key(api_key) ==
    CASE api_key = "master_cA" -> "cA"
      [] api_key = "master_cB" -> "cB"
      [] OTHER -> NoClient

\* ClientService.verify_scoped_api_key: (client, scoped_key) or none; the
\* scoped key carries the user id it was issued for
verify_scoped_api_key(api_key) ==
    IF api_key = "scoped_cA_u1"
    THEN [client |-> "cA", user_id |-> "u1"]
    ELSE [client |-> NoClient, user_id |-> Missing]

\* RoomService.get_user_rooms: the rooms the storage layer lists for a user
get_user_rooms(user_id, client_id) ==
    IF user_id = "u1" /\ client_id = "cA" THEN {"r1"} ELSE {}

\* ---------------------------------------------------------- SpecSio state
VARIABLES
    active_connections,   \* sockets.py: connection_key -> sid (NoSid: no entry)
    session_users,        \* sockets.py: ordered dict sid -> user_info, as a
                          \* sequence of records in insertion order
    user_rooms,           \* sockets.py: sid -> set of room ids (Absent: no entry)
    sio_rooms,            \* Socket.IO server: rooms each sid has entered
    sio_conn,             \* Socket.IO server: state of each sid's connection
    cpc,                  \* position of each sid's connect handler
    auth,                 \* the auth dict each sid connected with
    old_sid,              \* connect handler local: the session being evicted
    user_offline_emits,   \* number of user_offline broadcasts made for a sid
    connected_emits       \* number of 'connected' confirmations sent to a sid

sio_vars == <<active_connections, session_users, user_rooms, sio_rooms,
              sio_conn, cpc, auth, old_sid, user_offline_emits,
              connected_emits>>

\* ----------------------------------------------------------- SpecWs state
VARIABLES
    mgr_active,       \* manager.py active_connections: user_id -> websocket
    message_queues,   \* manager.py message_queues: user_id -> queue, a queue
                      \* being named after the connection it was created for
    receive_tasks,    \* manager.py receive_tasks: user_id -> task, likewise
    task_state,       \* state of the receive task created for a connection
    app_state,        \* "closed" once the server closed the websocket
    client_state,     \* websocket.client_state
    cleanup_lock,     \* manager.py _cleanup_lock: the endpoint holding it
    lock_waiters,     \* the endpoints queued on the lock, in FIFO order
    epc,              \* position of each connection's endpoint coroutine
    ws_user,          \* websocket_endpoint local user_id
    first_frame,      \* what the endpoint received as its first frame
    error_frames,     \* number of error frames sent on a connection
    peer_gone,        \* the client has gone away
    frames_sent,      \* text frames the client sent after the handshake
    queue_items,      \* contents of each queue
    arrived,          \* every frame ever put on a queue, in order
    consumed,         \* every frame taken off a queue, with its consumer
    wait_queue        \* get_message local: the queue an endpoint waits on

ws_vars == <<mgr_active, message_queues, receive_tasks, task_state, app_state,
             client_state, cleanup_lock, lock_waiters, epc, ws_user,
             first_frame, error_frames, peer_gone, frames_sent, queue_items,
             arrived, consumed, wait_queue>>

\* ---------------------------------------------------------- SpecMsg state
VARIABLES
    msg_pc,          \* where MessageService.send_message stands for each frame
    msg_to,          \* recipient_id of the frame (Missing: none given)
    msg_origin,      \* the connection whose client sent the frame
    msg_stored,      \* the message row is committed (message.py line 30)
    msg_delivered,   \* the row's delivered column (message.py lines 40-42)
    outbox           \* frames that went out, in order: [m, conn, kind]

msg_vars == <<msg_pc, msg_to, msg_origin, msg_stored, msg_delivered, outbox>>

\* ------------------------------------------------- notification state
VARIABLES
    notifications,      \* the notifications table: one row per id
    delivery_attempts,  \* notification_delivery_attempts rows, in insert order
    sends_made,         \* sends handed to a provider or the live channel, in order
    email_fallbacks,    \* websocket notifications whose email fallback was run
    celery_queue,       \* jobs handed to process_notification.delay, in order
    worker,             \* the job the worker is running and where it stands
    retry_replies,      \* last HTTP status the retry route answered, per id
    cancel_replies      \* last HTTP status the cancel route answered, per id

ntf_vars == <<notifications, delivery_attempts, sends_made, email_fallbacks,
              celery_queue, worker, retry_replies, cancel_replies>>

\* ---------------------------------------------- provider selection state
VARIABLES
    selection           \* one provider lookup: what was asked, what came back

sel_vars == <<selection>>

\* ------------------------------------------------------------ webhook state
VARIABLES
    webhook_endpoint,   \* the webhook_endpoints row of the one endpoint
    webhook_results     \* what the last webhook task of each event returned

wh_vars == <<webhook_endpoint, webhook_results>>

\* ---------------------------------------------------------- broadcast state
VARIABLES
    broadcast           \* one call of broadcast_to_all: its position and locals

bc_vars == <<broadcast>>

\* ---------------------------------------------------------- room event state
VARIABLES
    memberships,        \* room_memberships rows with is_active: (room_id, user_id)
    room_event,         \* the room event handler that is running, and its locals
    room_events_handled,\* number of room events the server has taken up
    room_emits,         \* emits made to a room: (event, room_id, sender sid)
    sid_errors,         \* 'error' emits made to a session: (sid, message)
    messages_saved      \* rows the socket send_message handler has stored

room_vars == <<memberships, room_event, room_events_handled, room_emits,
               sid_errors, messages_saved>>

\* ------------------------------------------------- live notification result
VARIABLES
    live                \* one run of process_websocket_notification from the
                        \* recorded live result on, and the status decided

live_vars == <<live>>

\* ------------------------------------------------------------ presence state
VARIABLES
    presence_reply      \* the last online_users or user_status reply: the
                        \* session it went to and the user ids it named

presence_vars == <<presence_reply>>

\* the parts added to the registry, each with a specification of its own
late_vars == <<room_vars, live_vars, presence_vars>>

\* the parts that stand apart from the sessions, messages and notifications
extra_vars == <<sel_vars, wh_vars, bc_vars, late_vars>>

\* what the actions of one part of the program leave alone
non_sio_vars == <<ws_vars, msg_vars, ntf_vars, extra_vars>>
non_ws_vars == <<sio_vars, msg_vars, ntf_vars, extra_vars>>
non_ntf_vars == <<sio_vars, ws_vars, msg_vars, extra_vars>>
main_vars == <<sio_vars, ws_vars, msg_vars, ntf_vars>>


ConnKeys == Clients \X Users

\* f"{client.id}:{user_id}"
connection_key(client_id, user_id) == <<client_id, user_id>>

\* ------------------------------------------------------------ dict helpers
SessionSids(su) == {su[i].sid : i \in 1..Len(su)}

RECURSIVE SeqWithout(_, _)
SeqWithout(su, sid) ==
    IF su = <<>> THEN <<>>
    ELSE IF Head(su).sid = sid THEN SeqWithout(Tail(su), sid)
    ELSE <<Head(su)>> \o SeqWithout(Tail(su), sid)

\* session_users.get(sid)
SessionGet(su, sid) ==
    IF sid \in SessionSids(su)
    THEN (CHOOSE i \in 1..Len(su) : su[i].sid = sid)
    ELSE 0

\* session_users[sid] = info : an existing key keeps its position
SessionPut(su, info) ==
    IF info.sid \in SessionSids(su)
    THEN [i \in 1..Len(su) |-> IF su[i].sid = info.sid THEN info ELSE su[i]]
    ELSE Append(su, info)

\* ------------------------------------------------ disconnect event handler
\* The registry as one value, so that handlers are functions of it.
Registry == [ac |-> active_connections, su |-> session_users,
             ur |-> user_rooms, sr |-> sio_rooms, off |-> user_offline_emits]

\* disconnect as it would be without the clean-up of session_users
disconnect_keeps_session(reg, sid) ==
    LET i == SessionGet(reg.su, sid) IN
    IF i = 0 THEN reg
    ELSE [reg EXCEPT !.ac[reg.su[i].connection_key] = NoSid,
                     !.ur[sid] = Absent,
                     !.off[sid] = @ + 1]

\* disconnect as it would be without the user_offline announcement
disconnect_without_offline(reg, sid) ==
    LET i == SessionGet(reg.su, sid) IN
    IF i = 0 THEN reg
    ELSE [reg EXCEPT !.ac[reg.su[i].connection_key] = NoSid,
                     !.su = SeqWithout(reg.su, sid),
                     !.ur[sid] = Absent,
                     !.sr[sid] = {}]

\* sockets.py disconnect(sid), up to its first suspension (the user_offline
\* emit); nothing follows the emit but a log line.
disconnect(reg, sid) ==
    LET i == SessionGet(reg.su, sid) IN
    IF i = 0 THEN reg
    ELSE LET user_info == reg.su[i]
             left == IF reg.ur[sid] = Absent THEN {} ELSE reg.ur[sid]
         IN [ac  |-> [reg.ac EXCEPT ![user_info.connection_key] = NoSid],
             su  |-> SeqWithout(reg.su, sid),
             ur  |-> [reg.ur EXCEPT ![sid] = Absent],
             sr  |-> [reg.sr EXCEPT ![sid] = @ \ left],
             off |-> [reg.off EXCEPT ![sid] = @ + 1]]

\* sio_server.disconnect(sid): for a connected sid the server runs the
\* disconnect handler and closes the connection; otherwise it does nothing.
sio_server_disconnect(reg, conn, sid) ==
    IF conn[sid] = "open" THEN disconnect(reg, sid) ELSE reg

SetRegistry(reg) ==
    /\ active_connections' = reg.ac
    /\ session_users' = reg.su
    /\ user_rooms' = reg.ur
    /\ sio_rooms' = reg.sr
    /\ user_offline_emits' = reg.off

\* ------------------------------------------------------- connect handler
\* lines 47-73: the credential check
AuthClient(a) ==
    IF a.user_id = Missing \/ a.api_key = Missing THEN NoClient
    ELSE IF verify_master_api_key(a.api_key) # NoClient
         THEN verify_master_api_key(a.api_key)
         ELSE verify_scoped_api_key(a.api_key).client

AuthScoped(a) ==
    /\ a.api_key # Missing
    /\ verify_master_api_key(a.api_key) = NoClient
    /\ verify_scoped_api_key(a.api_key).client # NoClient

\* the user id as it would be if the client's user_id were kept for a scoped
\* key
AuthUser_supplied(a) == a.user_id

\* lines 53, 70-73: the user id the session is registered under
AuthUser(a) ==
    IF AuthScoped(a) THEN verify_scoped_api_key(a.api_key).user_id
    ELSE a.user_id

UserInfo(sid, a) ==
    [sid |-> sid,
     user_id |-> AuthUser(a),
     client_id |-> AuthClient(a),
     connection_key |-> connection_key(AuthClient(a), AuthUser(a)),
     is_scoped |-> AuthScoped(a)]

\* lines 84-97: drop the old session's entries and store the new mappings
Install(reg, sid, a, old) ==
    LET su1 == IF old = NoSid THEN reg.su ELSE SeqWithout(reg.su, old)
        ur1 == IF old = NoSid THEN reg.ur ELSE [reg.ur EXCEPT ![old] = Absent]
    IN [reg EXCEPT
          !.ac = [reg.ac EXCEPT ![connection_key(AuthClient(a), AuthUser(a))] = sid],
          !.su = SessionPut(su1, UserInfo(sid, a)),
          !.ur = [ur1 EXCEPT ![sid] = {}]]

\* the sids whose connect handler is between its first and last suspension
InFlight == {t \in Sids : cpc[t] \in {"authed", "evicting", "joining", "notifying"}}

\* A client opens a Socket.IO connection; the handler validates the auth
\* data and verifies the key (lines 47-68).  A rejected connection is
\* disconnected and nothing is registered.
SioConnectAuth(sid, a) ==
    /\ cpc[sid] = "idle"
    /\ \A t \in Sids : t < sid => cpc[t] # "idle"
    /\ IF AuthClient(a) = NoClient
       THEN /\ cpc' = [cpc EXCEPT ![sid] = "rejected"]
            /\ sio_conn' = [sio_conn EXCEPT ![sid] = "server_closed"]
            /\ auth' = auth
       ELSE /\ Cardinality(InFlight) < MaxInFlight
            /\ cpc' = [cpc EXCEPT ![sid] = "authed"]
            /\ auth' = [auth EXCEPT ![sid] = a]
            /\ sio_conn' = [sio_conn EXCEPT ![sid] = "open"]
    /\ UNCHANGED <<active_connections, session_users, user_rooms, sio_rooms,
                   old_sid, user_offline_emits, connected_emits>>
    /\ UNCHANGED non_sio_vars

\* lines 75-82 (and 84-97 when the eviction does not suspend)
SioConnectRegister(sid) ==
    /\ cpc[sid] = "authed"
    /\ LET key == connection_key(AuthClient(auth[sid]), AuthUser(auth[sid]))
           old == active_connections[key]
       IN IF old # NoSid /\ sio_conn[old] = "open"
          THEN \* await sio_server.disconnect(old_sid) suspends
               /\ SetRegistry(sio_server_disconnect(Registry, sio_conn, old))
               /\ sio_conn' = [sio_conn EXCEPT ![old] = "server_closed"]
               /\ old_sid' = [old_sid EXCEPT ![sid] = old]
               /\ cpc' = [cpc EXCEPT ![sid] = "evicting"]
          ELSE /\ SetRegistry(Install(Registry, sid, auth[sid], old))
               /\ cpc' = [cpc EXCEPT ![sid] = "joining"]
               /\ UNCHANGED <<sio_conn, old_sid>>
    /\ UNCHANGED <<auth, connected_emits>>
    /\ UNCHANGED non_sio_vars

\* lines 84-97 after the eviction returned
SioConnectInstall(sid) ==
    /\ cpc[sid] = "evicting"
    /\ SetRegistry(Install(Registry, sid, auth[sid], old_sid[sid]))
    /\ cpc' = [cpc EXCEPT ![sid] = "joining"]
    /\ old_sid' = [old_sid EXCEPT ![sid] = NoSid]
    /\ UNCHANGED <<sio_conn, auth, connected_emits>>
    /\ UNCHANGED non_sio_vars

\* join_user_rooms (lines 612-625): enter each room and record it; a missing
\* user_rooms entry raises KeyError after the first enter_room, which the
\* function swallows.
join_user_rooms(reg, sid, user_id, client_id) ==
    LET rooms == get_user_rooms(user_id, client_id) IN
    IF rooms = {} THEN reg
    ELSE IF reg.ur[sid] = Absent
         THEN [reg EXCEPT !.sr[sid] = @ \cup {CHOOSE r \in rooms : TRUE}]
         ELSE [reg EXCEPT !.sr[sid] = @ \cup rooms,
                          !.ur[sid] = @ \cup rooms]

\* line 100, then the user_online emit of line 101 suspends
SioJoinRooms(sid) ==
    /\ cpc[sid] = "joining"
    /\ SetRegistry(join_user_rooms(Registry, sid, AuthUser(auth[sid]),
                                   AuthClient(auth[sid])))
    /\ cpc' = [cpc EXCEPT ![sid] = "notifying"]
    /\ UNCHANGED <<sio_conn, auth, old_sid, connected_emits>>
    /\ UNCHANGED non_sio_vars

\* lines 105-116: the 'connected' confirmation; the handler returns and its
\* arguments and locals are gone
SioConnected(sid) ==
    /\ cpc[sid] = "notifying"
    /\ cpc' = [cpc EXCEPT ![sid] = "done"]
    /\ connected_emits' = [connected_emits EXCEPT ![sid] = @ + 1]
    /\ auth' = [auth EXCEPT ![sid] = NoAuth]
    /\ UNCHANGED <<active_connections, session_users, user_rooms, sio_rooms,
                   sio_conn, old_sid, user_offline_emits>>
    /\ UNCHANGED non_sio_vars

\* The client disconnects or its transport fails: the server runs the
\* disconnect handler for the sid (lines 124-147).  The event is modelled
\* from the moment the session is registered; the connect handler of the
\* sid may still be running.
SioClientDisconnect(sid) ==
    /\ sio_conn[sid] = "open"
    /\ cpc[sid] \in {"joining", "notifying", "done"}
    /\ SetRegistry(sio_server_disconnect(Registry, sio_conn, sid))
    /\ sio_conn' = [sio_conn EXCEPT ![sid] = "client_closed"]
    /\ UNCHANGED <<cpc, auth, old_sid, connected_emits>>
    /\ UNCHANGED non_sio_vars

SioInit ==
    /\ active_connections = [k \in ConnKeys |-> NoSid]
    /\ session_users = <<>>
    /\ user_rooms = [s \in Sids |-> Absent]
    /\ sio_rooms = [s \in Sids |-> {}]
    /\ sio_conn = [s \in Sids |-> "new"]
    /\ cpc = [s \in Sids |-> "idle"]
    /\ auth = [s \in Sids |-> NoAuth]
    /\ old_sid = [s \in Sids |-> NoSid]
    /\ user_offline_emits = [s \in Sids |-> 0]
    /\ connected_emits = [s \in Sids |-> 0]

SioNext ==
    \/ \E sid \in Sids, a \in AuthInputs : SioConnectAuth(sid, a)
    \/ \E sid \in Sids : SioConnectRegister(sid)
    \/ \E sid \in Sids : SioConnectInstall(sid)
    \/ \E sid \in Sids : SioJoinRooms(sid)
    \/ \E sid \in Sids : SioConnected(sid)
    \/ \E sid \in Sids : SioClientDisconnect(sid)

\* ================================================================= SpecRoom
\* The room event handlers of sockets.py (join_room, send_message,
\* get_messages, typing_start, mark_messages_read), running against the
\* registry while sessions connect and disconnect.  Each handler reads
\* session_users, awaits RoomService.user_can_access_room and then acts;
\* the server takes up one room event at a time here.  typing_stop has the
\* body of typing_start under another event name.
MaxRoomEvents == 1      \* room events the server takes up

RoomEventNames ==
    {"join_room", "send_message", "get_messages", "typing_start",
     "mark_messages_read"}

\* the data dicts the events arrive with
RoomEventData ==
    {[room_id |-> "r1", message_id |-> "m1"],
     [room_id |-> "r1", message_id |-> Missing],
     [room_id |-> Missing, message_id |-> "m1"]}

NoRoomEvent ==
    [pc |-> "idle", event |-> "none", sid |-> NoSid, room_id |-> Missing,
     user_id |-> Missing]

\* the access check as it would be if it let everybody in
user_can_access_room_open(rows, room_id, user_id) == TRUE

\* RoomService.user_can_access_room: an active membership row of the room
\* for the user id; the row carries no client id
user_can_access_room(rows, room_id, user_id) == <<room_id, user_id>> \in rows

\* RoomService.remove_member sets is_active to False
remove_member(rows, room_id, user_id) == rows \ {<<room_id, user_id>>}

\* the typing handlers return without an 'error' emit; the others send one
RoomError(errs, event, sid, message) ==
    IF event = "typing_start" THEN errs ELSE errs \cup {<<sid, message>>}

\* the data a handler refuses before it asks for the membership
RequiredMissing(event, data) ==
    \/ data.room_id = Missing
    \/ event = "mark_messages_read" /\ data.message_id = Missing

\* The handler's first block: session_users.get(sid), the required fields,
\* then the await of user_can_access_room (join_room lines 155-172, and the
\* same lines of the other four handlers).
RoomEventStart(sid, event, data) ==
    /\ room_event.pc = "idle"
    /\ room_events_handled < MaxRoomEvents
    /\ sio_conn[sid] = "open"
    /\ cpc[sid] = "done"
    /\ room_events_handled' = room_events_handled + 1
    /\ LET i == SessionGet(session_users, sid) IN
       IF i = 0
       THEN /\ sid_errors' = RoomError(sid_errors, event, sid, "Not authenticated")
            /\ room_event' = room_event
       ELSE IF RequiredMissing(event, data)
            THEN /\ sid_errors' = RoomError(sid_errors, event, sid, "room_id required")
                 /\ room_event' = room_event
            ELSE /\ room_event' = [pc |-> "checking", event |-> event, sid |-> sid,
                                   room_id |-> data.room_id,
                                   user_id |-> session_users[i].user_id]
                 /\ sid_errors' = sid_errors
    /\ UNCHANGED <<memberships, room_emits, messages_saved>>
    /\ UNCHANGED <<sio_vars, ws_vars, msg_vars, ntf_vars, sel_vars, wh_vars, bc_vars,
                   live_vars, presence_vars>>

\* join_room lines 174-195 after the membership was found: enter the socket
\* room, record it in user_rooms[sid] (KeyError when the session's entry is
\* gone, answered by the except branch) and announce the user to the room.
join_room(reg, emits, errs, e) ==
    LET sr1 == [reg.sr EXCEPT ![e.sid] = @ \cup {e.room_id}] IN
    IF reg.ur[e.sid] = Absent
    THEN [reg |-> [reg EXCEPT !.sr = sr1], emits |-> emits,
          errs |-> errs \cup {<<e.sid, "Failed to join room">>}]
    ELSE [reg |-> [reg EXCEPT !.sr = sr1, !.ur[e.sid] = @ \cup {e.room_id}],
          emits |-> emits \cup {<<"user_joined_room", e.room_id, e.sid>>},
          errs |-> errs]

\* typing_start lines 457-467: the indicator goes to the room
typing_start(reg, emits, errs, e) ==
    [reg |-> reg, emits |-> emits \cup {<<"typing_start", e.room_id, e.sid>>},
     errs |-> errs]

\* send_message lines 304-360, get_messages lines 392-429 and
\* mark_messages_read lines 543-566 call MessageService.create_message,
\* get_room_messages and mark_messages_as_read, which the service does not
\* define: the AttributeError is answered by the except branch, nothing is
\* stored and nothing is sent to the room.
message_service_call(reg, emits, errs, e) ==
    [reg |-> reg, emits |-> emits,
     errs |-> errs \cup {<<e.sid, "Failed">>}]

\* what a handler does once user_can_access_room returned True
RoomEventEffect(reg, emits, errs, e) ==
    CASE e.event = "join_room" -> join_room(reg, emits, errs, e)
      [] e.event = "typing_start" -> typing_start(reg, emits, errs, e)
      [] OTHER -> message_service_call(reg, emits, errs, e)

\* user_can_access_room answers and the handler runs to its end
RoomEventResume ==
    /\ room_event.pc = "checking"
    /\ LET e == room_event
           can_access == user_can_access_room(memberships, e.room_id, e.user_id)
           out == RoomEventEffect(Registry, room_emits, sid_errors, e)
       IN IF ~can_access
          THEN /\ sid_errors' = RoomError(sid_errors, e.event, e.sid,
                                          "Access denied to room")
               /\ UNCHANGED <<active_connections, session_users, user_rooms,
                              sio_rooms, user_offline_emits, room_emits>>
          ELSE /\ SetRegistry(out.reg)
               /\ room_emits' = out.emits
               /\ sid_errors' = out.errs
    /\ room_event' = NoRoomEvent
    /\ UNCHANGED <<memberships, room_events_handled, messages_saved>>
    /\ UNCHANGED <<sio_conn, cpc, auth, old_sid, connected_emits>>
    /\ UNCHANGED <<ws_vars, msg_vars, ntf_vars, sel_vars, wh_vars, bc_vars,
                   live_vars, presence_vars>>

\* a member is removed from a room through the REST API
RoomRemoveMember(room_id, user_id) ==
    /\ <<room_id, user_id>> \in memberships
    /\ memberships' = remove_member(memberships, room_id, user_id)
    /\ UNCHANGED <<room_event, room_events_handled, room_emits, sid_errors,
                   messages_saved>>
    /\ UNCHANGED <<main_vars, sel_vars, wh_vars, bc_vars, live_vars,
                   presence_vars>>

\* the membership rows agree with what get_user_rooms lists
RoomIdle ==
    /\ memberships = {<<"r1", "u1">>}
    /\ room_event = NoRoomEvent
    /\ room_events_handled = 0
    /\ room_emits = {}
    /\ sid_errors = {}
    /\ messages_saved = 0

RoomNext ==
    \/ SioNext
    \/ \E sid \in Sids, event \in RoomEventNames, data \in RoomEventData :
           RoomEventStart(sid, event, data)
    \/ RoomEventResume
    \/ \E room_id \in Rooms, user_id \in Users : RoomRemoveMember(room_id, user_id)

\* =================================================================== SpecWs
\* ConnectionManager (manager.py) and the /open endpoint (websocket.py)
WsUsers == {"u1", "u2"}

NoFrame == [kind |-> "none", user_id |-> Missing, credential |-> Missing]

\* what an endpoint can get as its first frame within the 10 s of line 67: a
\* connect message (with or without a credential), text that is no JSON, a
\* message of another type, a connect message without user_id, nothing
\* (timeout), or a failed receive because the client went away
ConnectFrames ==
    {[kind |-> "connect", user_id |-> "u1", credential |-> "valid"],
     [kind |-> "connect", user_id |-> "u1", credential |-> Missing],
     [kind |-> "connect", user_id |-> "u2", credential |-> "invalid"]}

FailingFrames ==
    {[kind |-> k, user_id |-> Missing, credential |-> Missing] :
        k \in {"bad_json", "not_connect", "no_user_id", "timeout", "dropped"}}

\* the manager, its lock, the tasks and the sockets as one value
WsState == [ac |-> mgr_active, mq |-> message_queues, rt |-> receive_tasks,
            task |-> task_state, app |-> app_state, cstate |-> client_state,
            lock |-> cleanup_lock, waiters |-> lock_waiters, epc |-> epc]

SetWsState(st) ==
    /\ mgr_active' = st.ac
    /\ message_queues' = st.mq
    /\ receive_tasks' = st.rt
    /\ task_state' = st.task
    /\ app_state' = st.app
    /\ client_state' = st.cstate
    /\ cleanup_lock' = st.lock
    /\ lock_waiters' = st.waiters
    /\ epc' = st.epc

\* _cleanup_user_internal lines 65-72: close the registered websocket
WsClose(st, u) ==
    IF st.ac[u] # NoConn /\ st.cstate[st.ac[u]] # "DISCONNECTED"
    THEN [st EXCEPT !.app[st.ac[u]] = "closed"]
    ELSE st

\* _cleanup_user_internal lines 74-77
WsPops(st, u) ==
    [st EXCEPT !.ac[u] = NoConn, !.mq[u] = NoConn, !.rt[u] = NoConn]

\* connect lines 28-32
WsInstall(st, c, u) ==
    [st EXCEPT !.ac[u] = c, !.mq[u] = c, !.rt[u] = c, !.task[c] = "running"]

\* `async with` left without the lock being given back
WsRelease_kept(st) == st

\* leaving `async with self._cleanup_lock`
WsRelease(st) == [st EXCEPT !.lock = NoConn]

\* asyncio.Lock.acquire returns at once when the lock is free and nobody is
\* queued on it
LockFree(st) == st.lock = NoConn /\ st.waiters = <<>>

Enqueue(st, c, pc) ==
    [st EXCEPT !.waiters = Append(@, c), !.epc[c] = pc]

\* _cleanup_user_internal lines 54-63: a receive task that is not done is
\* cancelled and awaited, which suspends the caller with the lock held
MustAwaitTask(st, u) ==
    st.rt[u] # NoConn /\ st.task[st.rt[u]] # "done"

CancelTask(st, c, u, pc) ==
    [st EXCEPT !.task[st.rt[u]] = "cancelling", !.epc[c] = pc]

\* ---- disconnect_async called from the finally block (websocket.py 56-59)
FinalFinish(st, c, u) ==
    [WsRelease(WsPops(WsClose(st, u), u)) EXCEPT !.epc[c] = "done"]

FinalLocked(st, c, u) ==
    IF MustAwaitTask(st, u) THEN CancelTask(st, c, u, "final_cancel")
    ELSE FinalFinish(st, c, u)

FinalReach(st, c, u) ==
    IF LockFree(st) THEN FinalLocked([st EXCEPT !.lock = c], c, u)
    ELSE Enqueue(st, c, "final_want")

\* ---- _cleanup_user called from ping (manager.py 248-258); ping then
\* returns False, the message loop breaks and the finally block runs
PingCleanupFinish(st, c, u) ==
    FinalReach(WsRelease(WsPops(WsClose(st, u), u)), c, u)

PingCleanupLocked(st, c, u) ==
    IF MustAwaitTask(st, u) THEN CancelTask(st, c, u, "ping_cancel")
    ELSE PingCleanupFinish(st, c, u)

PingCleanupReach(st, c, u) ==
    IF LockFree(st) THEN PingCleanupLocked([st EXCEPT !.lock = c], c, u)
    ELSE Enqueue(st, c, "ping_want")

\* ---- manager.connect (manager.py 18-36), then the 'connected' frame
ConnectFinish(st, c, u) ==
    [WsRelease(WsInstall(WsPops(WsClose(st, u), u), c, u))
        EXCEPT !.epc[c] = "loop"]

ConnectLocked(st, c, u) ==
    IF st.ac[u] = NoConn
    THEN [WsRelease(WsInstall(st, c, u)) EXCEPT !.epc[c] = "loop"]
    ELSE IF MustAwaitTask(st, u) THEN CancelTask(st, c, u, "connect_cancel")
    ELSE ConnectFinish(st, c, u)

ConnectReach(st, c, u) ==
    IF LockFree(st) THEN ConnectLocked([st EXCEPT !.lock = c], c, u)
    ELSE Enqueue(st, c, "connect_want")

\* ConnectionManager.ping (manager.py 233-258) as called from the message
\* loop (websocket.py 102-110); sent tells whether send_json went through
ping(st, c, u, sent) ==
    LET websocket == st.ac[u] IN
    IF websocket = NoConn THEN FinalReach(st, c, u)
    ELSE IF st.cstate[websocket] = "DISCONNECTED" THEN PingCleanupReach(st, c, u)
    ELSE IF sent THEN [st EXCEPT !.epc[c] = "loop"]
    ELSE PingCleanupReach(st, c, u)

\* send_json raises on a socket the server has closed, goes through on a
\* live one, and may do either while an unnoticed client is gone
SendOutcomes(st, u) ==
    LET websocket == st.ac[u] IN
    IF websocket = NoConn THEN {TRUE}
    ELSE IF st.app[websocket] = "closed" THEN {FALSE}
    ELSE IF peer_gone[websocket] THEN {TRUE, FALSE}
    ELSE {TRUE}

WsUnchangedHistory ==
    UNCHANGED <<frames_sent, queue_items, arrived, consumed>>

\* websocket.accept() (websocket.py 21)
WsAccept(c) ==
    /\ epc[c] = "idle"
    /\ \A d \in Conns : d < c => epc[d] # "idle"
    /\ epc' = [epc EXCEPT ![c] = "handshake"]
    /\ UNCHANGED <<mgr_active, message_queues, receive_tasks, task_state,
                   app_state, client_state, cleanup_lock, lock_waiters,
                   ws_user, first_frame, error_frames, peer_gone, wait_queue>>
    /\ WsUnchangedHistory
    /\ UNCHANGED non_ws_vars

\* _handle_initial_connection (websocket.py 63-91) and, on success, the call
\* of manager.connect (websocket.py 28-37)
WsHandshake(c, f) ==
    /\ epc[c] = "handshake"
    /\ f \in ConnectFrames \cup FailingFrames
    /\ (f.kind = "dropped") = peer_gone[c]
    /\ first_frame' = [first_frame EXCEPT ![c] = f]
    /\ IF f.kind = "connect"
       THEN /\ ws_user' = [ws_user EXCEPT ![c] = f.user_id]
            /\ SetWsState(ConnectReach(WsState, c, f.user_id))
            /\ UNCHANGED error_frames
       ELSE /\ error_frames' =
                 [error_frames EXCEPT ![c] =
                     IF f.kind \in {"bad_json", "not_connect", "no_user_id"}
                     THEN @ + 1 ELSE @]
            /\ SetWsState([WsState EXCEPT
                  !.app[c] = "closed",
                  !.cstate[c] = IF f.kind = "dropped" THEN "DISCONNECTED" ELSE @,
                  !.epc[c] = "rejected"])
            /\ UNCHANGED ws_user
    /\ UNCHANGED <<peer_gone, wait_queue>>
    /\ WsUnchangedHistory
    /\ UNCHANGED non_ws_vars

\* an endpoint queued on the lock gets it
WsAcquire(c) ==
    /\ epc[c] \in {"connect_want", "ping_want", "final_want"}
    /\ cleanup_lock = NoConn
    /\ lock_waiters # <<>>
    /\ Head(lock_waiters) = c
    /\ LET st == [WsState EXCEPT !.lock = c, !.waiters = Tail(@)]
           u == ws_user[c]
       IN SetWsState(CASE epc[c] = "connect_want" -> ConnectLocked(st, c, u)
                       [] epc[c] = "ping_want" -> PingCleanupLocked(st, c, u)
                       [] epc[c] = "final_want" -> FinalLocked(st, c, u))
    /\ UNCHANGED <<ws_user, first_frame, error_frames, peer_gone, wait_queue>>
    /\ WsUnchangedHistory
    /\ UNCHANGED non_ws_vars

\* the cancelled receive task runs its CancelledError handler and ends
\* (manager.py 200-205)
WsTaskCancelled(c) ==
    /\ task_state[c] = "cancelling"
    /\ task_state' = [task_state EXCEPT ![c] = "done"]
    /\ UNCHANGED <<mgr_active, message_queues, receive_tasks, app_state,
                   client_state, cleanup_lock, lock_waiters, epc, ws_user,
                   first_frame, error_frames, peer_gone, wait_queue>>
    /\ WsUnchangedHistory
    /\ UNCHANGED non_ws_vars

\* `await task` returns: the rest of _cleanup_user_internal and of its caller
WsCleanupResume(c) ==
    /\ epc[c] \in {"connect_cancel", "ping_cancel", "final_cancel"}
    /\ ~MustAwaitTask(WsState, ws_user[c])
    /\ LET u == ws_user[c]
       IN SetWsState(CASE epc[c] = "connect_cancel" -> ConnectFinish(WsState, c, u)
                       [] epc[c] = "ping_cancel" -> PingCleanupFinish(WsState, c, u)
                       [] epc[c] = "final_cancel" -> FinalFinish(WsState, c, u))
    /\ UNCHANGED <<ws_user, first_frame, error_frames, peer_gone, wait_queue>>
    /\ WsUnchangedHistory
    /\ UNCHANGED non_ws_vars

\* the client of connection c goes away without the server having read it yet
WsClientDrop(c) ==
    /\ epc[c] \notin {"idle", "rejected", "done"}
    /\ ~peer_gone[c]
    /\ peer_gone' = [peer_gone EXCEPT ![c] = TRUE]
    /\ UNCHANGED <<mgr_active, message_queues, receive_tasks, task_state,
                   app_state, client_state, cleanup_lock, lock_waiters, epc,
                   ws_user, first_frame, error_frames, wait_queue>>
    /\ WsUnchangedHistory
    /\ UNCHANGED non_ws_vars

\* _receive_loop (manager.py 188-194): one frame of connection c is read and
\* put into the queue registered under the user id
WsRecvFrame(c) ==
    /\ task_state[c] = "running"
    /\ client_state[c] = "CONNECTED"
    /\ ~peer_gone[c]
    /\ frames_sent[c] < MaxFrames
    /\ LET u == ws_user[c]
           q == message_queues[u]
           msg == <<c, frames_sent[c] + 1>>
       IN /\ frames_sent' = [frames_sent EXCEPT ![c] = @ + 1]
          /\ IF q # NoConn
             THEN /\ queue_items' = [queue_items EXCEPT ![q] = Append(@, msg)]
                  /\ arrived' = [arrived EXCEPT ![q] = Append(@, msg)]
                  /\ UNCHANGED task_state
             ELSE /\ task_state' = [task_state EXCEPT ![c] = "done"]
                  /\ UNCHANGED <<queue_items, arrived>>
    /\ UNCHANGED <<mgr_active, message_queues, receive_tasks, app_state,
                   client_state, cleanup_lock, lock_waiters, epc, ws_user,
                   first_frame, error_frames, peer_gone, wait_queue, consumed>>
    /\ UNCHANGED non_ws_vars

\* _receive_loop (manager.py 196-198): receive_text raises for a client that
\* is gone; the socket is DISCONNECTED from then on and the task ends
WsRecvDisconnect(c) ==
    /\ task_state[c] = "running"
    /\ peer_gone[c]
    /\ task_state' = [task_state EXCEPT ![c] = "done"]
    /\ client_state' = [client_state EXCEPT ![c] = "DISCONNECTED"]
    /\ UNCHANGED <<mgr_active, message_queues, receive_tasks, app_state,
                   cleanup_lock, lock_waiters, epc, ws_user, first_frame,
                   error_frames, peer_gone, wait_queue>>
    /\ WsUnchangedHistory
    /\ UNCHANGED non_ws_vars

\* _handle_message_loop line 100 and get_message (manager.py 220-226): the
\* queue is looked up under the user id on every turn of the loop; without a
\* queue the call returns None and the loop pings at once
WsGetMessage(c, sent) ==
    /\ epc[c] = "loop"
    /\ sent \in SendOutcomes(WsState, ws_user[c])
    /\ LET u == ws_user[c]
           queue == message_queues[u]
       IN IF queue = NoConn
          THEN /\ SetWsState(ping(WsState, c, u, sent))
               /\ UNCHANGED wait_queue
          ELSE /\ wait_queue' = [wait_queue EXCEPT ![c] = queue]
               /\ epc' = [epc EXCEPT ![c] = "waiting"]
               /\ UNCHANGED <<mgr_active, message_queues, receive_tasks,
                              task_state, app_state, client_state,
                              cleanup_lock, lock_waiters>>
    /\ UNCHANGED <<ws_user, first_frame, error_frames, peer_gone>>
    /\ WsUnchangedHistory
    /\ UNCHANGED non_ws_vars

\* queue.get() returns a frame to the endpoint, which processes it
\* (websocket.py 112-122; a failing reply is swallowed by _send_error) and
\* goes round the loop
WsDequeue(c) ==
    /\ epc[c] = "waiting"
    /\ queue_items[wait_queue[c]] # <<>>
    /\ LET q == wait_queue[c]
       IN /\ queue_items' = [queue_items EXCEPT ![q] = Tail(@)]
          /\ consumed' = [consumed EXCEPT
                 ![q] = Append(@, [frame |-> Head(queue_items[q]), by |-> c])]
    /\ epc' = [epc EXCEPT ![c] = "loop"]
    /\ wait_queue' = [wait_queue EXCEPT ![c] = NoConn]
    /\ UNCHANGED <<mgr_active, message_queues, receive_tasks, task_state,
                   app_state, client_state, cleanup_lock, lock_waiters,
                   ws_user, first_frame, error_frames, peer_gone,
                   frames_sent, arrived>>
    /\ UNCHANGED non_ws_vars

\* the 30 s of get_message run out on an empty queue: the loop pings
\* (websocket.py 102-110)
WsQueueTimeout(c, sent) ==
    /\ epc[c] = "waiting"
    /\ queue_items[wait_queue[c]] = <<>>
    /\ sent \in SendOutcomes(WsState, ws_user[c])
    /\ SetWsState(ping(WsState, c, ws_user[c], sent))
    /\ wait_queue' = [wait_queue EXCEPT ![c] = NoConn]
    /\ UNCHANGED <<ws_user, first_frame, error_frames, peer_gone>>
    /\ WsUnchangedHistory
    /\ UNCHANGED non_ws_vars

WsInit ==
    /\ mgr_active = [u \in WsUsers |-> NoConn]
    /\ message_queues = [u \in WsUsers |-> NoConn]
    /\ receive_tasks = [u \in WsUsers |-> NoConn]
    /\ task_state = [c \in Conns |-> "none"]
    /\ app_state = [c \in Conns |-> "open"]
    /\ client_state = [c \in Conns |-> "CONNECTED"]
    /\ cleanup_lock = NoConn
    /\ lock_waiters = <<>>
    /\ epc = [c \in Conns |-> "idle"]
    /\ ws_user = [c \in Conns |-> Missing]
    /\ first_frame = [c \in Conns |-> NoFrame]
    /\ error_frames = [c \in Conns |-> 0]
    /\ peer_gone = [c \in Conns |-> FALSE]
    /\ frames_sent = [c \in Conns |-> 0]
    /\ queue_items = [c \in Conns |-> <<>>]
    /\ arrived = [c \in Conns |-> <<>>]
    /\ consumed = [c \in Conns |-> <<>>]
    /\ wait_queue = [c \in Conns |-> NoConn]

WsNext ==
    \/ \E c \in Conns : WsAccept(c)
    \/ \E c \in Conns, f \in ConnectFrames \cup FailingFrames : WsHandshake(c, f)
    \/ \E c \in Conns : WsAcquire(c)
    \/ \E c \in Conns : WsTaskCancelled(c)
    \/ \E c \in Conns : WsCleanupResume(c)
    \/ \E c \in Conns : WsClientDrop(c)
    \/ \E c \in Conns : WsRecvFrame(c)
    \/ \E c \in Conns : WsRecvDisconnect(c)
    \/ \E c \in Conns, sent \in BOOLEAN : WsGetMessage(c, sent)
    \/ \E c \in Conns : WsDequeue(c)
    \/ \E c \in Conns, sent \in BOOLEAN : WsQueueTimeout(c, sent)

\* ------------------------------------------------------- broadcast_to_all
\* ConnectionManager.broadcast_to_all (manager.py 268-287), called once while
\* the endpoints go on: the coroutine can be suspended in send_json and in
\* _cleanup_user, and the dict it iterates is the manager's own

\* the broadcasting coroutine, as a holder of the cleanup lock
Broadcaster == MaxConns + 1

RegisteredUsers == {u \in WsUsers : mgr_active[u] # NoConn}

\* websocket.send_json on the socket the loop took from the dict: it raises
\* on a socket the server has closed, goes through on a live one, and may do
\* either while an unnoticed client is gone
SocketSendOutcomes(websocket) ==
    IF app_state[websocket] = "closed" THEN {FALSE}
    ELSE IF peer_gone[websocket] THEN {TRUE, FALSE}
    ELSE {TRUE}

BcIdle ==
    broadcast = [pc |-> "idle", exclude_user |-> Missing, size |-> 0,
                 targets |-> {}, visited |-> {}, user_id |-> Missing,
                 websocket |-> NoConn, sent_to |-> {}, failed |-> {},
                 disconnected_users |-> <<>>, evicted |-> {}]

BcUnchangedRest ==
    UNCHANGED <<sio_vars, msg_vars, ntf_vars, sel_vars, wh_vars, late_vars>>

BcUnchangedLocals ==
    UNCHANGED <<ws_user, first_frame, error_frames, peer_gone, wait_queue,
                frames_sent, queue_items, arrived, consumed>>

\* the manager and the broadcast as one value
BcState == [ws |-> WsState, b |-> broadcast]

SetBcState(x) == SetWsState(x.ws) /\ broadcast' = x.b

\* the orders in which the dict can hold its entries
DictOrders == {<<"u1", "u2">>, <<"u2", "u1">>}

\* the first user of the order among the given ones
FirstIn(order, users) ==
    order[CHOOSE i \in 1..Len(order) :
             /\ order[i] \in users
             /\ \A j \in 1..(i - 1) : order[j] \notin users]

RECURSIVE BcRunCleanup(_)

\* _cleanup_user_internal(user_id) for the head of disconnected_users, from
\* the close of the registered websocket on (manager.py 64-77), the release
\* of the lock, and the next turn of the cleanup loop
BcCleanupFinish(x) ==
    LET u == Head(x.b.disconnected_users)
    IN  BcRunCleanup([x EXCEPT
            !.ws = WsRelease(WsPops(WsClose(@, u), u)),
            !.b.disconnected_users = Tail(@),
            !.b.evicted = @ \cup ({x.ws.ac[u]} \ {NoConn})])

\* _cleanup_user_internal with the lock held (manager.py 54-63): a receive
\* task that is not done is cancelled and awaited
BcCleanupLocked(x) ==
    LET u == Head(x.b.disconnected_users)
    IN  IF MustAwaitTask(x.ws, u)
        THEN [x EXCEPT !.ws.task[x.ws.rt[u]] = "cancelling",
                       !.b.pc = "cleanup_cancel"]
        ELSE BcCleanupFinish(x)

\* the cleanup loop (284-285): _cleanup_user takes the lock or queues on it;
\* the call returns when the list is empty
BcRunCleanup(x) ==
    IF x.b.disconnected_users = <<>> THEN [x EXCEPT !.b.pc = "done"]
    ELSE IF LockFree(x.ws)
    THEN BcCleanupLocked([x EXCEPT !.ws.lock = Broadcaster])
    ELSE [x EXCEPT !.ws.waiters = Append(@, Broadcaster),
                   !.b.pc = "cleanup_want"]

RECURSIVE BcAdvance(_, _)

\* the for statement from its next turn to the next send_json (271-281): the
\* iterator raises RuntimeError when the dict has changed its size since the
\* loop began, ends when no entry is left, and otherwise yields the next
\* entry it has not passed (an entry installed during the loop lies behind
\* every older one); the entry is skipped, noted as disconnected, or sent to
BcAdvance(x, order) ==
    LET registered == {v \in WsUsers : x.ws.ac[v] # NoConn}
        remaining == {v \in registered : x.ws.ac[v] \notin x.b.visited}
        u == FirstIn(order, remaining)
        websocket == x.ws.ac[u]
        passed == [x EXCEPT !.b.visited = @ \cup {websocket}]
    IN  IF Cardinality(registered) # x.b.size
        THEN [x EXCEPT !.b.pc = "raised"]
        ELSE IF remaining = {} THEN BcRunCleanup(x)
        ELSE IF u = x.b.exclude_user THEN BcAdvance(passed, order)
        ELSE IF x.ws.cstate[websocket] = "DISCONNECTED"
        THEN BcAdvance([passed EXCEPT
                           !.b.failed = @ \cup {websocket},
                           !.b.disconnected_users = Append(@, u)], order)
        ELSE [passed EXCEPT !.b.pc = "sending", !.b.user_id = u,
                            !.b.websocket = websocket]

\* the call: the for statement makes its iterator over active_connections,
\* which remembers the size of the dict, and runs to its first send_json
BcStart(exclude_user, order) ==
    /\ broadcast.pc = "idle"
    /\ SetBcState(BcAdvance(
          [BcState EXCEPT
             !.b.exclude_user = exclude_user,
             !.b.size = Cardinality(RegisteredUsers),
             !.b.targets =
                 {mgr_active[u] : u \in RegisteredUsers \ {exclude_user}}],
          order))
    /\ BcUnchangedLocals
    /\ BcUnchangedRest

\* send_json returns or raises (276, 279-281) and the loop goes on
BcSendReturn(sent, order) ==
    /\ broadcast.pc = "sending"
    /\ sent \in SocketSendOutcomes(broadcast.websocket)
    /\ SetBcState(BcAdvance(
          IF sent
          THEN [BcState EXCEPT !.b.sent_to = @ \cup {broadcast.websocket}]
          ELSE [BcState EXCEPT
                  !.b.failed = @ \cup {broadcast.websocket},
                  !.b.disconnected_users = Append(@, broadcast.user_id)],
          order))
    /\ BcUnchangedLocals
    /\ BcUnchangedRest

\* the broadcast, queued on the lock, gets it
BcAcquire ==
    /\ broadcast.pc = "cleanup_want"
    /\ cleanup_lock = NoConn
    /\ lock_waiters # <<>>
    /\ Head(lock_waiters) = Broadcaster
    /\ SetBcState(BcCleanupLocked([BcState EXCEPT
                                     !.ws.lock = Broadcaster,
                                     !.ws.waiters = Tail(@)]))
    /\ BcUnchangedLocals
    /\ BcUnchangedRest

\* `await task` returns to the broadcast's cleanup
BcCleanupResume ==
    /\ broadcast.pc = "cleanup_cancel"
    /\ ~MustAwaitTask(WsState, Head(broadcast.disconnected_users))
    /\ SetBcState(BcCleanupFinish(BcState))
    /\ BcUnchangedLocals
    /\ BcUnchangedRest

\* the endpoints connect, ping and go away while one broadcast is made; no
\* frames are sent by the clients
BcNext ==
    \/ \E c \in Conns : WsAccept(c)
    \/ \E c \in Conns, f \in ConnectFrames \cup FailingFrames : WsHandshake(c, f)
    \/ \E c \in Conns : WsAcquire(c)
    \/ \E c \in Conns : WsTaskCancelled(c)
    \/ \E c \in Conns : WsCleanupResume(c)
    \/ \E c \in Conns : WsClientDrop(c)
    \/ \E c \in Conns : WsRecvDisconnect(c)
    \/ \E c \in Conns, sent \in BOOLEAN : WsGetMessage(c, sent)
    \/ \E c \in Conns, sent \in BOOLEAN : WsQueueTimeout(c, sent)
    \/ \E exclude_user \in {Missing} \cup WsUsers, order \in DictOrders :
          BcStart(exclude_user, order)
    \/ \E sent \in BOOLEAN, order \in DictOrders : BcSendReturn(sent, order)
    \/ BcAcquire
    \/ BcCleanupResume

\* =================================================================== SpecMsg
\* A send_message frame on the /open endpoint: _handle_send_message
\* (websocket.py 161-201), MessageService.send_message (message.py 17-48) and
\* ConnectionManager.send_message / send_acknowledgment (manager.py 92-176)
Msgs == 1..MaxMsgs

\* the endpoint coroutine that processes the frames
MsgEndpoint == 1

\* send_json on the websocket of connection c: it raises once the server has
\* closed the socket, goes through on a live one, and may do either while a
\* client that is gone has not been noticed
SocketOutcomes(c) ==
    IF app_state[c] = "closed" THEN {FALSE}
    ELSE IF peer_gone[c] THEN {TRUE, FALSE}
    ELSE {TRUE}

Frame(m, c, kind) == [m |-> m, conn |-> c, kind |-> kind]

\* the keys of ack_data (message.py 184-197)
ack_data_keys ==
    {"content", "encrypted_payload", "content_type", "sender_id",
     "recipient_id", "delivered", "delivered_at", "created_at"}

\* the 'delivered' frame of send_acknowledgment (manager.py 166-170) with the
\* ack_data of _send_delivery_acknowledgment: delivered_at is the row's, a
\* timestamp once the row is marked delivered and None before
AckFrame(m, c, delivered) ==
    [m |-> m, conn |-> c, kind |-> "delivered",
     data |-> [keys |-> ack_data_keys,
               delivered_at |-> IF delivered THEN "timestamp" ELSE "None"]]

\* a frame written to the endpoint's own websocket; when send_json raises, the
\* error frame that follows (websocket.py 119-121, 248-253) fails as well
Reply(box, m, kind, sent) ==
    IF sent THEN Append(box, Frame(m, MsgEndpoint, kind)) ELSE box

\* _cleanup_user (manager.py 79-82) with nobody else on the lock: a receive
\* task still running is cancelled and awaited, the socket closed, the
\* entries popped
cleanup_user(st, u) ==
    LET t == IF MustAwaitTask(st, u)
             THEN [st EXCEPT !.task[st.rt[u]] = "done"] ELSE st
    IN WsRelease(WsPops(WsClose(t, u), u))

\* message.py lines 28-31 with the delivery step moved in front of the commit
commit_after_delivery(ok) ==
    [stored |-> FALSE, pc |-> "delivering"]

\* message.py lines 28-31: the commit either stores the row or raises
commit_message(ok) ==
    IF ok THEN [stored |-> TRUE, pc |-> "delivering"]
    ELSE [stored |-> FALSE, pc |-> "done"]

MsgUnchangedWs ==
    UNCHANGED <<mgr_active, message_queues, receive_tasks, task_state,
                app_state, client_state, cleanup_lock, lock_waiters, epc>>

MsgUnchangedRest ==
    /\ UNCHANGED <<ws_user, first_frame, error_frames, peer_gone, wait_queue>>
    /\ WsUnchangedHistory
    /\ UNCHANGED sio_vars
    /\ UNCHANGED <<ntf_vars, extra_vars>>

\* a send_message frame reaches the endpoint: the receive task of the
\* registered connection queues it (manager.py 188-191), the endpoint takes
\* it from the queue it finds under its user id (manager.py 220-226) and
\* validates the payload (websocket.py 171-184); an invalid one is answered
\* with an error frame
MsgAccept(m, to, valid, sent) ==
    /\ msg_pc[m] = "idle"
    /\ \A k \in Msgs : k < m => msg_pc[k] = "done"
    /\ epc[MsgEndpoint] = "loop"
    /\ to \in {"u2", Missing}
    /\ sent \in SocketOutcomes(MsgEndpoint)
    /\ LET q == message_queues[ws_user[MsgEndpoint]]
       IN /\ q # NoConn
          /\ task_state[q] = "running"
          /\ client_state[q] = "CONNECTED"
          /\ ~peer_gone[q]
          /\ frames_sent[q] < MaxFrames
          /\ LET msg == <<q, frames_sent[q] + 1>>
             IN /\ frames_sent' = [frames_sent EXCEPT ![q] = @ + 1]
                /\ arrived' = [arrived EXCEPT ![q] = Append(@, msg)]
                /\ consumed' = [consumed EXCEPT
                       ![q] = Append(@, [frame |-> msg, by |-> MsgEndpoint])]
          /\ msg_origin' = [msg_origin EXCEPT ![m] = q]
    /\ msg_to' = [msg_to EXCEPT ![m] = to]
    /\ IF valid
       THEN /\ msg_pc' = [msg_pc EXCEPT ![m] = "committing"]
            /\ UNCHANGED outbox
       ELSE /\ msg_pc' = [msg_pc EXCEPT ![m] = "done"]
            /\ outbox' = Reply(outbox, m, "error", sent)
    /\ UNCHANGED <<msg_stored, msg_delivered>>
    /\ MsgUnchangedWs
    /\ UNCHANGED <<ws_user, first_frame, error_frames, peer_gone, wait_queue,
                   queue_items>>
    /\ UNCHANGED <<sio_vars, ntf_vars, extra_vars>>

\* message.py lines 28-31; a commit that raises leaves send_message and is
\* answered by the message loop with an error frame (websocket.py 119-121)
MsgCommit(m, ok, sent) ==
    /\ msg_pc[m] = "committing"
    /\ sent \in SocketOutcomes(MsgEndpoint)
    /\ msg_stored' = [msg_stored EXCEPT ![m] = commit_message(ok).stored]
    /\ msg_pc' = [msg_pc EXCEPT ![m] = commit_message(ok).pc]
    /\ outbox' = IF ok THEN outbox ELSE Reply(outbox, m, "error", sent)
    /\ UNCHANGED <<msg_to, msg_origin, msg_delivered>>
    /\ MsgUnchangedWs
    /\ MsgUnchangedRest

\* message.py line 34 and manager.send_message (manager.py 102-136); when the
\* message was not delivered, send_message returns and the endpoint answers
\* with message_sent (websocket.py 190-199); when send_json to the recipient
\* raises, the exception reaches the message loop, which answers with an error
MsgDeliver(m, sent_r, sent_s) ==
    /\ msg_pc[m] = "delivering"
    /\ sent_s \in SocketOutcomes(MsgEndpoint)
    /\ LET recipient_id == msg_to[m]
           websocket == IF recipient_id = Missing THEN NoConn
                        ELSE mgr_active[recipient_id]
       IN IF websocket = NoConn
          THEN /\ sent_r = FALSE
               /\ msg_pc' = [msg_pc EXCEPT ![m] = "done"]
               /\ outbox' = Reply(outbox, m, "message_sent_false", sent_s)
               /\ MsgUnchangedWs
          ELSE IF client_state[websocket] = "DISCONNECTED"
          THEN /\ sent_r = FALSE
               /\ SetWsState(cleanup_user(WsState, recipient_id))
               /\ msg_pc' = [msg_pc EXCEPT ![m] = "done"]
               /\ outbox' = Reply(outbox, m, "message_sent_false", sent_s)
          ELSE /\ sent_r \in SocketOutcomes(websocket)
               /\ MsgUnchangedWs
               /\ IF sent_r
                  THEN /\ outbox' = Append(outbox, Frame(m, websocket, "message"))
                       /\ msg_pc' = [msg_pc EXCEPT ![m] = "marking"]
                  ELSE /\ outbox' = Reply(outbox, m, "error", sent_s)
                       /\ msg_pc' = [msg_pc EXCEPT ![m] = "done"]
    /\ UNCHANGED <<msg_to, msg_origin, msg_stored, msg_delivered>>
    /\ MsgUnchangedRest

\* message.py lines 39-43: the delivered column is committed
MsgMarkDelivered(m, ok, sent) ==
    /\ msg_pc[m] = "marking"
    /\ sent \in SocketOutcomes(MsgEndpoint)
    /\ IF ok
       THEN /\ msg_delivered' = [msg_delivered EXCEPT ![m] = TRUE]
            /\ msg_pc' = [msg_pc EXCEPT ![m] = "acking"]
            /\ UNCHANGED outbox
       ELSE /\ msg_pc' = [msg_pc EXCEPT ![m] = "done"]
            /\ outbox' = Reply(outbox, m, "error", sent)
            /\ UNCHANGED msg_delivered
    /\ UNCHANGED <<msg_to, msg_origin, msg_stored>>
    /\ MsgUnchangedWs
    /\ MsgUnchangedRest

\* message.py line 46 with manager.send_acknowledgment (manager.py 144-176):
\* a 'delivered' frame to the websocket registered under the sender's id;
\* then send_message returns and the endpoint answers with message_sent on
\* its own websocket (websocket.py 190-199)
MsgAcknowledge(m, sent_ack, sent_s) ==
    /\ msg_pc[m] = "acking"
    /\ LET sender_id == ws_user[MsgEndpoint]
           websocket == mgr_active[sender_id]
           st == IF websocket = NoConn THEN WsState
                 ELSE IF client_state[websocket] = "DISCONNECTED"
                 THEN cleanup_user(WsState, sender_id)
                 ELSE IF sent_ack THEN WsState
                 ELSE cleanup_user(WsState, sender_id)
           acked == /\ websocket # NoConn
                    /\ client_state[websocket] # "DISCONNECTED"
                    /\ sent_ack
           box == IF acked
                  THEN Append(outbox, AckFrame(m, websocket, msg_delivered[m]))
                  ELSE outbox
       IN /\ sent_ack \in (IF websocket = NoConn
                              \/ client_state[websocket] = "DISCONNECTED"
                           THEN {FALSE} ELSE SocketOutcomes(websocket))
          /\ sent_s \in (IF st.app[MsgEndpoint] = "closed" THEN {FALSE}
                         ELSE IF peer_gone[MsgEndpoint] THEN {TRUE, FALSE}
                         ELSE {TRUE})
          /\ SetWsState(st)
          /\ outbox' = Reply(box, m, "message_sent_true", sent_s)
    /\ msg_pc' = [msg_pc EXCEPT ![m] = "done"]
    /\ UNCHANGED <<msg_to, msg_origin, msg_stored, msg_delivered>>
    /\ MsgUnchangedRest

\* no send_message frame has been taken up
MsgIdle ==
    /\ msg_pc = [m \in Msgs |-> "idle"]
    /\ msg_to = [m \in Msgs |-> Missing]
    /\ msg_origin = [m \in Msgs |-> NoConn]
    /\ msg_stored = [m \in Msgs |-> FALSE]
    /\ msg_delivered = [m \in Msgs |-> FALSE]
    /\ outbox = <<>>

\* the situations in which the endpoint of connection 1 (user u1) meets a
\* send_message frame: nobody is connected as u2; connection 2 is u2 and
\* live; connection 2 is u2 and its client has gone unnoticed; connection 2
\* is u2 and was seen DISCONNECTED; or connection 2 is a newer session of u1
\* that evicted connection 1, whose message loop is still running
MsgSituations ==
    {"rcpt_absent", "rcpt_live", "rcpt_gone", "rcpt_disconnected",
     "sender_evicted"}

MsgStart(sit) ==
    LET second == sit # "rcpt_absent"
        evicted == sit = "sender_evicted"
        user2 == IF evicted THEN "u1" ELSE "u2"
    IN
    /\ mgr_active = [u \in WsUsers |->
          IF second /\ u = user2 THEN 2 ELSE IF u = "u1" THEN 1 ELSE NoConn]
    /\ message_queues = mgr_active
    /\ receive_tasks = mgr_active
    /\ task_state = [c \in Conns |->
          IF c = 1 THEN (IF evicted THEN "done" ELSE "running")
          ELSE IF ~second THEN "none"
          ELSE IF sit = "rcpt_disconnected" THEN "done" ELSE "running"]
    /\ app_state = [c \in Conns |->
          IF c = 1 /\ evicted THEN "closed" ELSE "open"]
    /\ client_state = [c \in Conns |->
          IF c = 2 /\ sit = "rcpt_disconnected" THEN "DISCONNECTED"
          ELSE "CONNECTED"]
    /\ cleanup_lock = NoConn
    /\ lock_waiters = <<>>
    /\ epc = [c \in Conns |->
          IF c = 1 THEN "loop" ELSE IF second THEN "waiting" ELSE "idle"]
    /\ ws_user = [c \in Conns |->
          IF c = 1 THEN "u1" ELSE IF second THEN user2 ELSE Missing]
    /\ first_frame = [c \in Conns |->
          IF c = 1 \/ evicted
          THEN [kind |-> "connect", user_id |-> "u1", credential |-> "valid"]
          ELSE IF second
          THEN [kind |-> "connect", user_id |-> "u2", credential |-> "invalid"]
          ELSE NoFrame]
    /\ error_frames = [c \in Conns |-> 0]
    /\ peer_gone = [c \in Conns |->
          c = 2 /\ sit \in {"rcpt_gone", "rcpt_disconnected"}]
    /\ frames_sent = [c \in Conns |-> 0]
    /\ queue_items = [c \in Conns |-> <<>>]
    /\ arrived = [c \in Conns |-> <<>>]
    /\ consumed = [c \in Conns |-> <<>>]
    /\ wait_queue = [c \in Conns |-> IF c = 2 /\ second THEN 2 ELSE NoConn]

MsgNext ==
    \/ \E m \in Msgs, to \in {"u2", Missing}, valid, sent \in BOOLEAN :
          MsgAccept(m, to, valid, sent)
    \/ \E m \in Msgs, ok, sent \in BOOLEAN : MsgCommit(m, ok, sent)
    \/ \E m \in Msgs, sent_r, sent_s \in BOOLEAN : MsgDeliver(m, sent_r, sent_s)
    \/ \E m \in Msgs, ok, sent \in BOOLEAN : MsgMarkDelivered(m, ok, sent)
    \/ \E m \in Msgs, sent_ack, sent_s \in BOOLEAN :
          MsgAcknowledge(m, sent_ack, sent_s)
    \/ \E c \in Conns : WsClientDrop(c)
    \/ \E c \in Conns : WsRecvDisconnect(c)

\* --------------------------------------------------- notification engine
Ntfs == 1..MaxNtfs

\* NotificationStatus (models/notification.py 34-42)
Statuses == {"PENDING", "PROCESSING", "SENT", "FAILED", "RETRYING", "CANCELLED"}

NoRoom == "none"
NtfRooms == {"room_empty", "room_online"}

\* no row under this id
NoRow ==
    [status |-> "none", type |-> "none", content |-> "", room_id |-> NoRoom,
     email_fallback |-> FALSE, max_retry_attempts |-> 0, retry_attempt |-> 0,
     error_message |-> ""]

RetryCeilings == {2, DefaultMaxRetryAttempts}

\* what a NotificationCreate that passed its validators can carry (schemas/
\* notification.py 20-72): content is a required string and may be empty, an
\* email has a to_email, a websocket notification has a room_id or an
\* email_fallback descriptor, max_retry_attempts defaults to 3
NtfShapes ==
    {[type |-> "email", content |-> c, room_id |-> NoRoom,
      email_fallback |-> FALSE, max_retry_attempts |-> m] :
        c \in {"text", ""}, m \in RetryCeilings}
    \cup
    {s \in [type : {"websocket"}, content : {"text"},
            room_id : {NoRoom} \cup NtfRooms, email_fallback : BOOLEAN,
            max_retry_attempts : {DefaultMaxRetryAttempts}] :
        s.room_id # NoRoom \/ s.email_fallback}

\* the row create_notification inserts: status and retry_attempt take the
\* column defaults (models/notification.py 100-106)
create_notification(shape) ==
    [status |-> "PENDING", type |-> shape.type, content |-> shape.content,
     room_id |-> shape.room_id, email_fallback |-> shape.email_fallback,
     max_retry_attempts |-> shape.max_retry_attempts, retry_attempt |-> 0,
     error_message |-> ""]

\* update_status that writes the status and never the error_message
update_status_without_message(tbl, n, status, error_message) ==
    IF tbl[n].status = "none" THEN tbl
    ELSE [tbl EXCEPT ![n].status = status]

\* update_status (services/notification.py 92-112): the row, if there is one,
\* takes the status it is given; error_message is written only when the one
\* given is not empty, otherwise the row keeps the one it had
update_status(tbl, n, status, error_message) ==
    IF tbl[n].status = "none" THEN tbl
    ELSE [tbl EXCEPT ![n].status = status,
                     ![n].error_message =
                         IF error_message # "" THEN error_message ELSE @]

\* record_delivery_attempt: one more row in notification_delivery_attempts
record_delivery_attempt(rows, n, attempt_number, provider_name, success) ==
    Append(rows, [notification_id |-> n, attempt_number |-> attempt_number,
                  status |-> IF success THEN "success" ELSE "failed",
                  provider_name |-> provider_name])

\* the rows and the sends of one notification
AttemptsOf(n) ==
    {i \in 1..Len(delivery_attempts) : delivery_attempts[i].notification_id = n}

SendsOf(n) ==
    {i \in 1..Len(sends_made) : sends_made[i].notification_id = n}

Sent(sends, n, provider_name, outcome) ==
    Append(sends, [notification_id |-> n, provider_name |-> provider_name,
                   outcome |-> outcome])

\* ------------------------------------------------------- email providers
NoProvider ==
    [provider_type |-> "none", is_primary |-> FALSE, is_bulk |-> FALSE,
     max_recipients |-> 0]

Provider(t, primary, bulk, cap) ==
    [provider_type |-> t, is_primary |-> primary, is_bulk |-> bulk,
     max_recipients |-> cap]

\* the provider sets a client can have configured, in configuration order
ProviderManagers ==
    {<<>>,
     <<Provider("sendgrid", TRUE, TRUE, 100)>>,
     <<Provider("sendgrid", TRUE, FALSE, 5)>>,
     <<Provider("sendgrid", FALSE, TRUE, 100),
       Provider("postmark", TRUE, TRUE, 100)>>,
     <<Provider("mailgun", FALSE, TRUE, 100),
       Provider("postmark", FALSE, TRUE, 100)>>,
     <<Provider("smtp", TRUE, TRUE, 100),
       Provider("sendgrid", FALSE, TRUE, 100)>>}

\* 1 + len(cc) + len(bcc)
RecipientCounts == {1, 6}

\* the first provider, in dict order, among those at the given positions
FirstProvider(providers, positions) ==
    IF positions # {}
    THEN providers[CHOOSE i \in positions : \A j \in positions : i <= j]
    ELSE NoProvider

\* get_provider_for_sending with a bulk loop that does not look at the load
get_provider_for_sending_any_bulk(providers, recipient_count) ==
    LET fits == {i \in 1..Len(providers) :
                    recipient_count <= providers[i].max_recipients}
        primary == {i \in fits : providers[i].is_primary}
        bulk == {i \in 1..Len(providers) : providers[i].is_bulk}
    IN  IF providers = <<>> THEN NoProvider
        ELSE IF recipient_count <= 5 /\ primary # {}
        THEN FirstProvider(providers, primary)
        ELSE IF bulk # {} THEN FirstProvider(providers, bulk)
        ELSE FirstProvider(providers, fits)

get_provider_for_sending(providers, recipient_count) ==
    LET fits == {i \in 1..Len(providers) :
                    recipient_count <= providers[i].max_recipients}
        primary == {i \in fits : providers[i].is_primary}
        bulk == {i \in fits : providers[i].is_bulk}
    IN  IF providers = <<>> THEN NoProvider
        ELSE IF recipient_count <= 5 /\ primary # {}
        THEN FirstProvider(providers, primary)
        ELSE IF bulk # {} THEN FirstProvider(providers, bulk)
        ELSE FirstProvider(providers, fits)

get_fallback_provider(providers, failed_provider_type) ==
    FirstProvider(providers,
        {i \in 1..Len(providers) :
            providers[i].provider_type # failed_provider_type})

\* provider.__class__.__name__
provider_class_name(p) ==
    CASE p.provider_type = "smtp" -> "SMTPProvider"
      [] p.provider_type = "mailgun" -> "MailgunProvider"
      [] p.provider_type = "sendgrid" -> "SendGridProvider"
      [] p.provider_type = "postmark" -> "PostmarkProvider"
      [] OTHER -> "none"

\* the type the worker hands to get_fallback_provider (253-257)
failed_provider_type(provider_name) ==
    IF provider_name = "SMTPProvider" THEN "smtp" ELSE "mailgun"

\* provider.send_email(to_email=..., subject=..., ...): the SMTP and Mailgun
\* adapters take one EmailMessage, so the keyword call raises TypeError; the
\* others answer a dict with success true or false and raise nothing
send_email(p) ==
    IF p.provider_type \in {"smtp", "mailgun"} THEN {"raises"}
    ELSE {"success", "failure"}

\* process_email_notification up to the provider lookup (159-192): the
\* request needs to_email, subject, content and a client_id
email_request_error(fields, has_client_id) ==
    IF ~fields THEN "missing_fields"
    ELSE IF ~has_client_id THEN "missing_client_id"
    ELSE "none"

\* ----------------------------------------------------- live notification
\* whether a member of the room is online
check_room_has_online_users(room_id) == room_id = "room_online"

send_websocket_notification_params ==
    {"content", "subject", "metadata", "room_id", "target_client_id",
     "notification_type"}

\* send_websocket_notification called with the keywords of lines 357-362: a
\* keyword the function does not take raises TypeError before it runs
send_websocket_notification(keywords) ==
    IF keywords \subseteq send_websocket_notification_params
    THEN {"success", "failure"}
    ELSE {"raises"}

\* meta.fallback_reason of the email fallback request (398-403)
fallback_reason(success) ==
    IF ~success THEN "websocket_delivery_failed" ELSE "no_online_users"

\* --------------------------------------------------------------- worker
WorkerIdle ==
    [pc |-> "idle", id |-> 0, attempts |-> 0, providers |-> <<>>,
     provider |-> NoProvider, send_result |-> "none",
     has_online_users |-> FALSE, result |-> "none", error |-> "",
     fallback_reason |-> ""]

\* the handler returned its result, with the text under "error" when it is an
\* error: process_notification_async decides the status next
Returned(w, result, error) ==
    [w EXCEPT !.pc = "deciding", !.result = result, !.error = error]

NtfUnchangedRest == UNCHANGED non_ntf_vars

\* a notification row is stored
NtfCreate(n, shape) ==
    /\ notifications[n].status = "none"
    /\ \A k \in 1..(n - 1) : notifications[k].status # "none"
    /\ notifications' = [notifications EXCEPT ![n] = create_notification(shape)]
    /\ UNCHANGED <<delivery_attempts, sends_made, email_fallbacks,
                   celery_queue, worker, retry_replies,
                   cancel_replies>>
    /\ NtfUnchangedRest

\* trigger_delivery(notification_id): the payload carries the number of
\* attempts recorded so far, the row goes to PROCESSING and the job is queued
NtfTrigger(n) ==
    /\ notifications[n].status # "none"
    /\ Len(celery_queue) < MaxJobs
    /\ Len(delivery_attempts) < MaxAttempts
    /\ Len(sends_made) < MaxAttempts
    /\ notifications' = update_status(notifications, n, "PROCESSING", "")
    /\ celery_queue' = Append(celery_queue,
          [id |-> n, attempts |-> Cardinality(AttemptsOf(n))])
    /\ UNCHANGED <<delivery_attempts, sends_made, email_fallbacks, worker,
                   retry_replies, cancel_replies>>
    /\ NtfUnchangedRest

\* the worker takes the next job off the queue
NtfTakeJob ==
    /\ worker.pc = "idle"
    /\ celery_queue # <<>>
    /\ worker' = [WorkerIdle EXCEPT !.pc = "routing",
                                    !.id = Head(celery_queue).id,
                                    !.attempts = Head(celery_queue).attempts]
    /\ celery_queue' = Tail(celery_queue)
    /\ UNCHANGED <<notifications, delivery_attempts, sends_made,
                   email_fallbacks, retry_replies,
                   cancel_replies>>
    /\ NtfUnchangedRest

\* process_email_notification up to the primary send: the payload built by
\* trigger_delivery has a client_id and no provider_config, so the manager is
\* the client's; no provider or a send that raises ends the handler
NtfEmailSend(providers, recipient_count, outcome) ==
    LET row == notifications[worker.id]
        provider == get_provider_for_sending(providers, recipient_count)
        refusal == email_request_error(row.content # "", TRUE)
    IN
    /\ worker.pc = "routing"
    /\ row.type = "email"
    /\ IF refusal # "none"
       THEN /\ worker' = Returned(worker, "error", refusal)
            /\ UNCHANGED sends_made
       ELSE IF provider = NoProvider
       THEN /\ worker' = Returned(worker, "error", "no_provider")
            /\ UNCHANGED sends_made
       ELSE /\ outcome \in send_email(provider)
            /\ sends_made' = Sent(sends_made, worker.id,
                                  provider_class_name(provider), outcome)
            /\ worker' =
                  IF outcome = "raises"
                  THEN Returned(worker, "error", "exception")
                  ELSE [worker EXCEPT !.pc = "recording",
                                      !.providers = providers,
                                      !.provider = provider,
                                      !.send_result = outcome]
    /\ UNCHANGED <<notifications, delivery_attempts, email_fallbacks,
                   celery_queue, retry_replies,
                   cancel_replies>>
    /\ NtfUnchangedRest

\* the primary send is recorded (233-242); success returns, failure looks
\* for a fallback provider (253-258)
NtfRecordPrimary ==
    LET name == provider_class_name(worker.provider)
        success == worker.send_result = "success"
        fallback == get_fallback_provider(worker.providers,
                                          failed_provider_type(name))
    IN
    /\ worker.pc = "recording"
    /\ delivery_attempts' = record_delivery_attempt(
          delivery_attempts, worker.id, worker.attempts + 1, name, success)
    /\ worker' =
          IF success THEN Returned(worker, "success", "")
          ELSE IF fallback = NoProvider
          THEN Returned(worker, "error", "delivery_failed")
          ELSE [worker EXCEPT !.pc = "fallback_sending", !.provider = fallback]
    /\ UNCHANGED <<notifications, sends_made, email_fallbacks, celery_queue,
                   retry_replies, cancel_replies>>
    /\ NtfUnchangedRest

\* the fallback provider is tried once (265-273)
NtfFallbackSend(outcome) ==
    /\ worker.pc = "fallback_sending"
    /\ outcome \in send_email(worker.provider)
    /\ sends_made' = Sent(sends_made, worker.id,
                          provider_class_name(worker.provider), outcome)
    /\ worker' =
          IF outcome = "raises" THEN Returned(worker, "error", "exception")
          ELSE [worker EXCEPT !.pc = "fallback_recording",
                              !.send_result = outcome]
    /\ UNCHANGED <<notifications, delivery_attempts, email_fallbacks,
                   celery_queue, retry_replies,
                   cancel_replies>>
    /\ NtfUnchangedRest

\* the fallback send is recorded (278-287) and the handler returns
NtfRecordFallback ==
    LET success == worker.send_result = "success"
    IN
    /\ worker.pc = "fallback_recording"
    /\ delivery_attempts' = record_delivery_attempt(
          delivery_attempts, worker.id, worker.attempts + 2,
          provider_class_name(worker.provider), success)
    /\ worker' = IF success THEN Returned(worker, "success", "")
                  ELSE Returned(worker, "error", "delivery_failed")
    /\ UNCHANGED <<notifications, sends_made, email_fallbacks, celery_queue,
                   retry_replies, cancel_replies>>
    /\ NtfUnchangedRest

\* process_websocket_notification up to the live send (316-362): without a
\* room_id nothing is sent and ws_result is the failure it was initialised to
NtfWebsocketSend(outcome) ==
    LET row == notifications[worker.id]
        has_room == row.room_id # NoRoom
        has_online_users ==
            IF has_room THEN check_room_has_online_users(row.room_id) ELSE FALSE
    IN
    /\ worker.pc = "routing"
    /\ row.type = "websocket"
    /\ IF row.content = "" \/ (~has_room /\ ~row.email_fallback)
       THEN /\ worker' = Returned(worker, "error",
                              IF row.content = "" THEN "missing_content"
                              ELSE "missing_target")
            /\ UNCHANGED sends_made
       ELSE IF has_room
       THEN /\ outcome \in send_websocket_notification(
                              {"content", "subject", "meta", "room_id"})
            /\ IF outcome = "raises"
               THEN /\ worker' = Returned(worker, "error", "exception")
                    /\ UNCHANGED sends_made
               ELSE /\ sends_made' = Sent(sends_made, worker.id,
                                          "WebSocketManager", outcome)
                    /\ worker' = [worker EXCEPT
                          !.pc = "ws_recording",
                          !.send_result = outcome,
                          !.has_online_users = has_online_users]
       ELSE /\ worker' = [worker EXCEPT !.pc = "ws_recording",
                                        !.send_result = "failure",
                                        !.has_online_users = has_online_users]
            /\ UNCHANGED sends_made
    /\ UNCHANGED <<notifications, delivery_attempts, email_fallbacks,
                   celery_queue, retry_replies,
                   cancel_replies>>
    /\ NtfUnchangedRest

\* the live result is recorded (364-379) and the email fallback decided
\* (382): the fallback request (388-405) is built without a client_id, so
\* process_email_notification answers it with an error before any send
NtfWebsocketRecord ==
    LET row == notifications[worker.id]
        success == worker.send_result = "success"
        should_fallback ==
            row.email_fallback /\ (~success \/ ~worker.has_online_users)
        email_result ==
            IF email_request_error(TRUE, FALSE) = "none"
            THEN "success" ELSE "error"
    IN
    /\ worker.pc = "ws_recording"
    /\ delivery_attempts' = record_delivery_attempt(
          delivery_attempts, worker.id, worker.attempts + 1,
          "WebSocketManager", success)
    /\ email_fallbacks' =
          IF should_fallback THEN email_fallbacks \cup {worker.id}
          ELSE email_fallbacks
    /\ worker' =
          IF should_fallback
          THEN Returned([worker EXCEPT
                            !.fallback_reason = fallback_reason(success)],
                        email_result,
                        IF email_result = "success" THEN ""
                        ELSE "websocket_and_fallback_failed")
          ELSE IF success THEN Returned(worker, "success", "")
          ELSE Returned(worker, "error", "websocket_failed")
    /\ UNCHANGED <<notifications, sends_made, celery_queue, retry_replies,
                   cancel_replies>>
    /\ NtfUnchangedRest

\* NtfDecide, except that an error result schedules a retry: the row goes to
\* RETRYING and the job back on the queue
NtfDecide_retrying ==
    /\ worker.pc = "deciding"
    /\ notifications' =
          IF worker.result = "success"
          THEN update_status(notifications, worker.id, "SENT", "")
          ELSE update_status(notifications, worker.id, "RETRYING", worker.error)
    /\ celery_queue' =
          IF worker.result = "success" THEN celery_queue
          ELSE Append(celery_queue, [id |-> worker.id,
                                     attempts |-> worker.attempts])
    /\ worker' = WorkerIdle
    /\ UNCHANGED <<delivery_attempts, sends_made, email_fallbacks,
                   retry_replies, cancel_replies>>
    /\ NtfUnchangedRest

\* NtfDecide, except that an error result is returned without a status
\* being written
NtfDecide_silent ==
    /\ worker.pc = "deciding"
    /\ notifications' =
          IF worker.result = "success"
          THEN update_status(notifications, worker.id, "SENT", "")
          ELSE notifications
    /\ worker' = WorkerIdle
    /\ UNCHANGED <<delivery_attempts, sends_made, email_fallbacks,
                   celery_queue, retry_replies,
                   cancel_replies>>
    /\ NtfUnchangedRest

\* process_notification_async 101-124: SENT on success, FAILED with the
\* result's error text otherwise
NtfDecide ==
    /\ worker.pc = "deciding"
    /\ notifications' =
          IF worker.result = "success"
          THEN update_status(notifications, worker.id, "SENT", "")
          ELSE update_status(notifications, worker.id, "FAILED", worker.error)
    /\ worker' = WorkerIdle
    /\ UNCHANGED <<delivery_attempts, sends_made, email_fallbacks,
                   celery_queue, retry_replies,
                   cancel_replies>>
    /\ NtfUnchangedRest

\* POST /{notification_id}/retry: an unknown id is answered 404; for a row
\* the comparison with NotificationStatus.failed, a name the enum does not
\* have, raises and the route answers 500
NtfRetryRequest(n) ==
    LET reply == IF notifications[n].status = "none" THEN 404 ELSE 500
    IN
    /\ retry_replies[n] # reply
    /\ retry_replies' = [retry_replies EXCEPT ![n] = reply]
    /\ UNCHANGED <<notifications, delivery_attempts, sends_made,
                   email_fallbacks, celery_queue, worker,
                   cancel_replies>>
    /\ NtfUnchangedRest

\* DELETE /{notification_id}: an unknown id is answered 404; for a row the
\* comparison with NotificationStatus.pending and .scheduled, names the enum
\* does not have, raises and the route answers 500 without a change
NtfCancelRequest(n) ==
    LET reply == IF notifications[n].status = "none" THEN 404 ELSE 500
    IN
    /\ cancel_replies[n] # reply
    /\ cancel_replies' = [cancel_replies EXCEPT ![n] = reply]
    /\ UNCHANGED <<notifications, delivery_attempts, sends_made,
                   email_fallbacks, celery_queue, worker, retry_replies>>
    /\ NtfUnchangedRest

\* an empty table, an empty queue and an idle worker
NtfIdle ==
    /\ notifications = [n \in Ntfs |-> NoRow]
    /\ delivery_attempts = <<>>
    /\ sends_made = <<>>
    /\ email_fallbacks = {}
    /\ celery_queue = <<>>
    /\ worker = WorkerIdle
    /\ retry_replies = [n \in Ntfs |-> 0]
    /\ cancel_replies = [n \in Ntfs |-> 0]

NtfNext ==
    \/ \E n \in Ntfs, shape \in NtfShapes : NtfCreate(n, shape)
    \/ \E n \in Ntfs : NtfTrigger(n)
    \/ NtfTakeJob
    \/ \E providers \in ProviderManagers, recipient_count \in RecipientCounts,
          outcome \in {"success", "failure", "raises"} :
          NtfEmailSend(providers, recipient_count, outcome)
    \/ NtfRecordPrimary
    \/ \E outcome \in {"success", "failure", "raises"} : NtfFallbackSend(outcome)
    \/ NtfRecordFallback
    \/ \E outcome \in {"success", "failure", "raises"} : NtfWebsocketSend(outcome)
    \/ NtfWebsocketRecord
    \/ NtfDecide
    \/ \E n \in Ntfs : NtfRetryRequest(n)
    \/ \E n \in Ntfs : NtfCancelRequest(n)

\* task_acks_late (celery_app.py 58): a job is acknowledged after the task
\* returned, so a job whose acknowledgement is lost is delivered again.  The
\* task itself ends as in NtfDecide.
NtfAckLost ==
    /\ worker.pc = "deciding"
    /\ Len(celery_queue) < MaxJobs
    /\ Len(delivery_attempts) < MaxAttempts
    /\ Len(sends_made) < MaxAttempts
    /\ notifications' =
          IF worker.result = "success"
          THEN update_status(notifications, worker.id, "SENT", "")
          ELSE update_status(notifications, worker.id, "FAILED", worker.error)
    /\ celery_queue' = Append(celery_queue, [id |-> worker.id,
                                             attempts |-> worker.attempts])
    /\ worker' = WorkerIdle
    /\ UNCHANGED <<delivery_attempts, sends_made, email_fallbacks,
                   retry_replies, cancel_replies>>
    /\ NtfUnchangedRest

\* the notification worker behind a queue that delivers at least once
NtfRedeliverNext ==
    \/ NtfNext
    \/ NtfAckLost

\* ------------------------------------------- the result of a live send
\* process_websocket_notification from the recorded live result to its
\* return (364-444) and the status process_notification_async gives the
\* notification (101-124), for every result send_websocket_notification
\* returns and every answer of the online check.
EmailFallbacks == {"none", "with_to_email", "without_to_email"}

NoLive ==
    [pc |-> "idle", success |-> FALSE, has_online_users |-> FALSE,
     email_fallback |-> "none", attempts |-> 0, fallback_used |-> FALSE,
     result |-> "none", error |-> "", status |-> "PROCESSING"]

\* line 382
should_fallback(email_fallback, success, has_online_users) ==
    email_fallback # "none" /\ (~success \/ ~has_online_users)

\* process_email_notification called with the request of lines 388-405, which
\* carries no client_id
fallback_email_result(email_fallback) ==
    email_request_error(email_fallback = "with_to_email", FALSE)

\* lines 407-444: the result the handler returns
websocket_result(l, email_error) ==
    IF l.fallback_used
    THEN IF email_error = "none"
         THEN [l EXCEPT !.pc = "returned", !.result = "success"]
         ELSE [l EXCEPT !.pc = "returned", !.result = "error",
                        !.error = "websocket_and_fallback_failed"]
    ELSE IF l.success THEN [l EXCEPT !.pc = "returned", !.result = "success"]
    ELSE [l EXCEPT !.pc = "returned", !.result = "error",
                   !.error = "websocket_failed"]

\* send_websocket_notification has returned and the attempt is recorded
\* (364-379); the fallback is decided (382) and, when taken, awaited (408)
LiveRecorded(success, has_online_users, email_fallback, attempts) ==
    /\ live.pc = "idle"
    /\ live' = [NoLive EXCEPT
                   !.pc = IF should_fallback(email_fallback, success,
                                             has_online_users)
                          THEN "fallback" ELSE "recorded",
                   !.success = success,
                   !.has_online_users = has_online_users,
                   !.email_fallback = email_fallback,
                   !.attempts = attempts,
                   !.fallback_used = should_fallback(email_fallback, success,
                                                     has_online_users)]
    /\ UNCHANGED <<main_vars, sel_vars, wh_vars, bc_vars, room_vars,
                   presence_vars>>

\* the handler returns (410-444)
LiveReturn ==
    /\ live.pc \in {"fallback", "recorded"}
    /\ live' = websocket_result(live, fallback_email_result(live.email_fallback))
    /\ UNCHANGED <<main_vars, sel_vars, wh_vars, bc_vars, room_vars,
                   presence_vars>>

\* process_notification_async 101-124
LiveDecide ==
    /\ live.pc = "returned"
    /\ live' = [live EXCEPT !.pc = "decided",
                            !.status = IF live.result = "success"
                                       THEN "SENT" ELSE "FAILED"]
    /\ UNCHANGED <<main_vars, sel_vars, wh_vars, bc_vars, room_vars,
                   presence_vars>>

\* the next job
LiveReset ==
    /\ live.pc = "decided"
    /\ live' = NoLive
    /\ UNCHANGED <<main_vars, sel_vars, wh_vars, bc_vars, room_vars,
                   presence_vars>>

LiveIdle == live = NoLive

LiveNext ==
    \/ \E success \in BOOLEAN, has_online_users \in BOOLEAN,
          email_fallback \in EmailFallbacks, attempts \in 0..MaxAttempts :
          LiveRecorded(success, has_online_users, email_fallback, attempts)
    \/ LiveReturn
    \/ LiveDecide
    \/ LiveReset

\* ------------------------------------------------------------- webhooks
WhEvents == 1..MaxWebhookEvents

\* WebhookStatus (models/webhook.py 44-50)
WebhookStatuses ==
    {"active", "inactive", "suspended", "pending_verification"}

NoEndpoint == [status |-> "none", consecutive_failures |-> 0]

\* a webhook_endpoints row as it is inserted: consecutive_failures takes the
\* column default 0 (models/webhook.py 106-117)
WebhookEndpoint(status) == [status |-> status, consecutive_failures |-> 0]

NoWebhookResult == [task |-> "none", status |-> "none", retry_count |-> 0]

\* process_webhook_event(webhook_data): logs and answers success
process_webhook_event ==
    [task |-> "process_webhook_event", status |-> "success", retry_count |-> 0]

\* retry_failed_webhook(webhook_event_id, retry_count): failed once the
\* retry count has reached 5, success with the count plus one below that
retry_failed_webhook(retry_count) ==
    IF retry_count >= WebhookMaxRetries
    THEN [task |-> "retry_failed_webhook", status |-> "failed",
          retry_count |-> retry_count]
    ELSE [task |-> "retry_failed_webhook", status |-> "success",
          retry_count |-> retry_count + 1]

WhUnchangedRest == UNCHANGED <<main_vars, sel_vars, bc_vars, late_vars>>

\* an endpoint row is stored, active or waiting for its verification
WhInsertEndpoint(status) ==
    /\ webhook_endpoint = NoEndpoint
    /\ webhook_endpoint' = WebhookEndpoint(status)
    /\ UNCHANGED webhook_results
    /\ WhUnchangedRest

\* the worker runs process_webhook_event for an event: no row is read or
\* written
WhProcessEvent(e) ==
    /\ webhook_results' = [webhook_results EXCEPT ![e] = process_webhook_event]
    /\ UNCHANGED webhook_endpoint
    /\ WhUnchangedRest

\* the worker runs retry_failed_webhook for an event: no row is read or
\* written
WhRetryEvent(e, retry_count) ==
    /\ webhook_results' =
          [webhook_results EXCEPT ![e] = retry_failed_webhook(retry_count)]
    /\ UNCHANGED webhook_endpoint
    /\ WhUnchangedRest

WhIdle ==
    /\ webhook_endpoint = NoEndpoint
    /\ webhook_results = [e \in WhEvents |-> NoWebhookResult]

WhNext ==
    \/ \E status \in {"active", "pending_verification"} :
          WhInsertEndpoint(status)
    \/ \E e \in WhEvents : WhProcessEvent(e)
    \/ \E e \in WhEvents, retry_count \in 0..MaxRetryCount :
          WhRetryEvent(e, retry_count)

\* ---------------------------------------------------- provider selection
\* the providers a manager can hold: SendGrid and Postmark adapters in either
\* order, each with its flags and its max_recipients
SelProviders ==
    [provider_type : {"sendgrid", "postmark"}, is_primary : BOOLEAN,
     is_bulk : BOOLEAN, max_recipients : {5, 100}]

SelManagers ==
    {<<>>} \cup {<<p>> : p \in SelProviders}
    \cup {pair \in SelProviders \X SelProviders :
              pair[1].provider_type # pair[2].provider_type}

\* 1 + len(cc) + len(bcc)
SelRecipientCounts == {1, 5, 6, 101}

SelIdle ==
    selection = [pc |-> "idle", providers |-> <<>>, recipient_count |-> 0,
                 provider |-> NoProvider]

\* the worker has the manager of the client and counted the recipients
SelRequest(providers, recipient_count) ==
    /\ selection.pc = "idle"
    /\ selection' = [selection EXCEPT !.pc = "asked",
                                      !.providers = providers,
                                      !.recipient_count = recipient_count]
    /\ UNCHANGED <<main_vars, wh_vars, bc_vars, late_vars>>

\* provider_manager.get_provider_for_sending(recipient_count)
SelAnswer ==
    /\ selection.pc = "asked"
    /\ selection' = [selection EXCEPT
          !.pc = "answered",
          !.provider = get_provider_for_sending(selection.providers,
                                                selection.recipient_count)]
    /\ UNCHANGED <<main_vars, wh_vars, bc_vars, late_vars>>

SelNext ==
    \/ \E providers \in SelManagers, recipient_count \in SelRecipientCounts :
          SelRequest(providers, recipient_count)
    \/ SelAnswer

\* the parts outside the sessions, messages and notifications at rest
NoReply == [event |-> "none", sid |-> NoSid, users |-> <<>>]

PresenceIdle == presence_reply = NoReply

LateIdle == RoomIdle /\ LiveIdle /\ PresenceIdle

ExtraIdle == SelIdle /\ WhIdle /\ BcIdle /\ LateIdle

MsgInit ==
    SioInit /\ MsgIdle /\ NtfIdle /\ ExtraIdle /\ \E sit \in MsgSituations : MsgStart(sit)

vars == <<sio_vars, ws_vars, msg_vars, ntf_vars, extra_vars>>

Init == SioInit /\ WsInit /\ MsgIdle /\ NtfIdle /\ ExtraIdle

SpecSio == Init /\ [][SioNext]_vars

SpecWs == Init /\ [][WsNext]_vars

SpecMsg == MsgInit /\ [][MsgNext]_vars

SpecNtf == Init /\ [][NtfNext]_vars

SpecSel == Init /\ [][SelNext]_vars

SpecWh == Init /\ [][WhNext]_vars

SpecBc == Init /\ [][BcNext]_vars

SpecRoom == Init /\ [][RoomNext]_vars

SpecNtfRedeliver == Init /\ [][NtfRedeliverNext]_vars

SpecLive == Init /\ [][LiveNext]_vars

\* the steps of the worker process: taking a job and running it to its end
NtfWorkerStep ==
    \/ NtfTakeJob
    \/ \E providers \in ProviderManagers, recipient_count \in RecipientCounts,
          outcome \in {"success", "failure", "raises"} :
          NtfEmailSend(providers, recipient_count, outcome)
    \/ NtfRecordPrimary
    \/ \E outcome \in {"success", "failure", "raises"} : NtfFallbackSend(outcome)
    \/ NtfRecordFallback
    \/ \E outcome \in {"success", "failure", "raises"} : NtfWebsocketSend(outcome)
    \/ NtfWebsocketRecord
    \/ NtfDecide

\* the worker keeps running: it is one sequential process, so whenever it
\* can take a step it eventually takes one
SpecNtfFair == Init /\ [][NtfNext]_vars /\ WF_vars(NtfWorkerStep)

\* the event loop runs every task that is ready and every timeout fires: each
\* step of the server is taken once it stays possible; what the clients send
\* and whether they go away is left to them
SpecWsFair ==
    /\ SpecWs
    /\ \A c \in Conns :
          /\ WF_vars(WsAccept(c))
          /\ WF_vars(\E f \in ConnectFrames \cup FailingFrames : WsHandshake(c, f))
          /\ WF_vars(WsAcquire(c))
          /\ WF_vars(WsTaskCancelled(c))
          /\ WF_vars(WsCleanupResume(c))
          /\ WF_vars(WsRecvDisconnect(c))
          /\ WF_vars(\E sent \in BOOLEAN : WsGetMessage(c, sent))
          /\ WF_vars(WsDequeue(c))
          /\ WF_vars(\E sent \in BOOLEAN : WsQueueTimeout(c, sent))

\* the event loop runs every coroutine that is ready: a cancelled receive task
\* runs its handler, and a coroutine resumes once the task it awaits has
\* ended or the lock it is queued on is handed to it; when the clients come
\* and go and when the sends return is left open
SpecBcFair ==
    /\ SpecBc
    /\ \A c \in Conns :
          /\ WF_vars(WsAcquire(c))
          /\ WF_vars(WsTaskCancelled(c))
          /\ WF_vars(WsCleanupResume(c))
    /\ WF_vars(BcAcquire)
    /\ WF_vars(BcCleanupResume)

\* ------------------------------------------------------ registry queries
\* get_user_connection(user_id): the first session, in dict order, whose
\* user_info carries the user id
get_user_connection(su, user_id) ==
    IF \E i \in 1..Len(su) : su[i].user_id = user_id
    THEN su[CHOOSE i \in 1..Len(su) :
               /\ su[i].user_id = user_id
               /\ \A j \in 1..(i - 1) : su[j].user_id # user_id].sid
    ELSE NoSid

is_user_online(su, user_id) == get_user_connection(su, user_id) # NoSid

\* online_users_by_client(client_id): the user ids of the client's sessions,
\* one list element per session
online_users_by_client(su, client_id) ==
    SelectSeq(su, LAMBDA info : info.client_id = client_id)

\* ------------------------------------------------------ presence events
\* get_online_users(): the user id of every session, whatever its client
get_online_users(su) == [i \in 1..Len(su) |-> su[i].user_id]

\* sio_server.emit(event, data) without room or to: every connected session
\* of the namespace receives it
emit_to_all(conn) == {t \in Sids : conn[t] = "open"}

\* the online_users event (584-592): no reply to a session without an entry
SioOnlineUsers(sid) ==
    /\ sio_conn[sid] = "open"
    /\ cpc[sid] = "done"
    /\ presence_reply' =
          IF SessionGet(session_users, sid) = 0 THEN presence_reply
          ELSE [event |-> "online_users", sid |-> sid,
                users |-> get_online_users(session_users)]
    /\ UNCHANGED <<main_vars, sel_vars, wh_vars, bc_vars, room_vars, live_vars>>

\* the user_status event (595-606); the reply names the user when it says
\* online
SioUserStatus(sid, target_user_id) ==
    /\ sio_conn[sid] = "open"
    /\ cpc[sid] = "done"
    /\ presence_reply' =
          IF SessionGet(session_users, sid) = 0 THEN presence_reply
          ELSE [event |-> "user_status", sid |-> sid,
                users |-> IF is_user_online(session_users, target_user_id)
                          THEN <<target_user_id>> ELSE <<>>]
    /\ UNCHANGED <<main_vars, sel_vars, wh_vars, bc_vars, room_vars, live_vars>>

PresenceNext ==
    \/ SioNext
    \/ \E sid \in Sids : SioOnlineUsers(sid)
    \/ \E sid \in Sids, target_user_id \in Users : SioUserStatus(sid, target_user_id)

SpecPresence == Init /\ [][PresenceNext]_vars

Registered(sid) == sid \in SessionSids(session_users)

SessionsOfKey(k) ==
    {i \in 1..Len(session_users) : session_users[i].connection_key = k}

\* ------------------------------------------------------------------ claims

\* C1: after any interleaving of connects and disconnects, every (tenant,
\* user) identity has at most one session in the registry: at most one entry
\* of session_users carries a given connection_key, and the online listing of
\* a tenant names each of its users at most once.
C1_AtMostOneSessionPerIdentity ==
    /\ \A k \in ConnKeys : Cardinality(SessionsOfKey(k)) <= 1
    /\ \A c \in Clients :
          LET online == online_users_by_client(session_users, c)
          IN \A i, j \in 1..Len(online) :
                online[i].user_id = online[j].user_id => i = j

\* every connect handler has returned and no client has gone away
AllConnectsCompleted ==
    /\ \A s \in Sids : cpc[s] \in {"done", "rejected"}
    /\ \A s \in Sids : sio_conn[s] # "client_closed"

\* C2: once the concurrent connect calls have all completed, the registry
\* holds exactly one session of an identity, the one active_connections maps
\* the identity to, and every other session that connected has been evicted
\* and its connection closed.
C2_OneSurvivorOthersClosed ==
    AllConnectsCompleted =>
        /\ \A k \in ConnKeys : Cardinality(SessionsOfKey(k)) <= 1
        /\ \A s \in Sids :
              cpc[s] = "done" =>
                 \/ /\ Registered(s)
                    /\ sio_conn[s] = "open"
                    /\ \E k \in ConnKeys : active_connections[k] = s
                 \/ /\ ~Registered(s)
                    /\ sio_conn[s] = "server_closed"

\* C3: the old session is evicted and closed before the new one is
\* installed: the registry never references two live connections of one
\* identity, and once active_connections shows the new session no other
\* session of the identity is still listed with an open connection.
C3_NeverTwoLiveHandles ==
    /\ \A i, j \in 1..Len(session_users) :
          (/\ i # j
           /\ session_users[i].connection_key = session_users[j].connection_key)
          => ~(/\ sio_conn[session_users[i].sid] = "open"
               /\ sio_conn[session_users[j].sid] = "open")
    /\ \A k \in ConnKeys :
          active_connections[k] # NoSid =>
             \A i \in SessionsOfKey(k) :
                session_users[i].sid # active_connections[k]
                => sio_conn[session_users[i].sid] # "open"

\* C4: registration, eviction and lookup are keyed by (tenant, user): the
\* entry of active_connections for (c, u) is a session registered for user u
\* of tenant c, and a lookup of user u made for a session of tenant c never
\* returns a session of another tenant.
C4_KeyedByTenantAndUser ==
    /\ \A k \in ConnKeys :
          (active_connections[k] # NoSid /\ Registered(active_connections[k]))
          => session_users[SessionGet(session_users, active_connections[k])]
                .connection_key = k
    /\ \A i \in 1..Len(session_users), u \in Users :
          LET r == get_user_connection(session_users, u)
          IN r # NoSid =>
                session_users[SessionGet(session_users, r)].client_id
                   = session_users[i].client_id

\* C5: a connection is entered in the registry (and told 'connected') only
\* after its first frame was a connect message with a user id and a
\* credential that was validated: every websocket the manager holds for a
\* user was opened with a valid credential for that user.
C5_RegisteredOnlyWithValidatedCredential ==
    \A u \in WsUsers :
        mgr_active[u] # NoConn =>
            /\ first_frame[mgr_active[u]].kind = "connect"
            /\ first_frame[mgr_active[u]].user_id = u
            /\ first_frame[mgr_active[u]].credential = "valid"

\* C6: every failed handshake on a socket that is still writable (malformed
\* JSON, first frame not a connect message, user id missing, timeout) has
\* sent an error frame and closed the connection, and the connection is not
\* in the registry.
C6_FailedHandshakeSendsErrorThenCloses ==
    \A c \in Conns :
        (epc[c] = "rejected" /\ first_frame[c].kind # "dropped") =>
            /\ error_frames[c] >= 1
            /\ app_state[c] = "closed"
            /\ \A u \in WsUsers : mgr_active[u] # c

TornDown(c) == task_state[c] # "none" /\ mgr_active[ws_user[c]] # c

\* C9: once a session has been removed from the registry, neither its
\* receive task nor its consumer (the message loop of its endpoint) is still
\* running.
C9_NoTaskOutlivesTeardown ==
    \A c \in Conns :
        TornDown(c) => /\ task_state[c] = "done"
                       /\ epc[c] \notin {"loop", "waiting"}

\* C10: the frames taken from a session's queue are the frames that arrived
\* on it, in arrival order and each once, and every one of them was taken by
\* the session's own endpoint, never by the endpoint of another session.
C10_InOrderBySingleConsumer ==
    \A q \in Conns :
        /\ Len(consumed[q]) <= Len(arrived[q])
        /\ \A i \in 1..Len(consumed[q]) :
              /\ consumed[q][i].frame = arrived[q][i]
              /\ consumed[q][i].by = q

\* the manager holds connection c as the websocket of some user
WsRegistered(c) == \E u \in WsUsers : mgr_active[u] = c

\* C11: a registered session whose peer stays silent does not stay
\* registered for ever: from any moment on, either another frame of the peer
\* arrives or the session is eventually torn down and removed.
C11_SilentPeerEventuallyRemoved ==
    \A c \in Conns, n \in 0..MaxFrames :
        (WsRegistered(c) /\ frames_sent[c] = n)
            ~> (~WsRegistered(c) \/ frames_sent[c] # n)

\* the frames of one kind that went out for message m
FramesOf(m, kinds) ==
    {i \in 1..Len(outbox) : outbox[i].m = m /\ outbox[i].kind \in kinds}

\* C12: a message is committed to storage before any live frame for it goes
\* out: every 'message', 'delivered' or 'message_sent' frame in the outbox
\* belongs to a stored message, and a message whose commit failed has none.
C12_PersistedBeforeDelivery ==
    \A m \in Msgs :
        FramesOf(m, {"message", "delivered", "message_sent_true",
                     "message_sent_false"}) # {}
            => msg_stored[m]

\* a stored message went out to its recipient, and another one failed to
\* commit
C12_Witness ==
    /\ \E m \in Msgs : FramesOf(m, {"message"}) # {} /\ msg_stored[m]
    /\ \E m \in Msgs : msg_pc[m] = "done" /\ ~msg_stored[m]
                       /\ FramesOf(m, {"error"}) # {}

C14_SenderAlwaysAnswered ==
    \A m \in Msgs :
        (/\ msg_pc[m] = "done"
         /\ app_state[msg_origin[m]] = "open"
         /\ ~peer_gone[msg_origin[m]])
        => \E i \in FramesOf(m, {"message_sent_true", "message_sent_false",
                                 "error"}) :
              outbox[i].conn = msg_origin[m]

LiveSendSucceeded(n) ==
    \E i \in SendsOf(n) :
        /\ sends_made[i].provider_name = "WebSocketManager"
        /\ sends_made[i].outcome = "success"

\* C16: when the handler of a websocket notification has returned, its
\* email fallback was attempted if and only if the notification carries an
\* email_fallback descriptor and the live send failed or no member of the
\* target room was online.
C16_FallbackIffDescriptorAndNoLiveDelivery ==
    LET n == worker.id
        row == notifications[n]
    IN  (worker.pc = "deciding" /\ row.type = "websocket" /\ row.content # "")
        => (n \in email_fallbacks
              <=> /\ row.email_fallback
                  /\ \/ ~LiveSendSucceeded(n)
                     \/ ~check_room_has_online_users(row.room_id))

\* the moves of the status state machine, the creation of the row included
AllowedMoves ==
    {<<"none", "PENDING">>, <<"PENDING", "PROCESSING">>,
     <<"PROCESSING", "SENT">>, <<"PROCESSING", "FAILED">>,
     <<"PROCESSING", "RETRYING">>, <<"PROCESSING", "CANCELLED">>,
     <<"RETRYING", "PROCESSING">>}

\* C17: every change of a notification's status is one of Pending ->
\* Processing, Processing -> Sent | Failed | Retrying | Cancelled and
\* Retrying -> Processing; in particular no step changes the status of a
\* notification that is Sent, Failed or Cancelled.
C17_StatusFollowsStateMachine ==
    [][\A n \in Ntfs :
          notifications'[n].status # notifications[n].status
              => <<notifications[n].status, notifications'[n].status>>
                    \in AllowedMoves]_vars

\* no job of the notification is queued or running
Settled(n) ==
    /\ worker.id # n
    /\ \A i \in 1..Len(celery_queue) : celery_queue[i].id # n

\* sends were made for the notification and the provider failed each of them
ProviderAlwaysFailed(n) ==
    /\ SendsOf(n) # {}
    /\ \A i \in SendsOf(n) : sends_made[i].outcome = "failure"

\* C18: a notification whose provider failed on every send is Failed, with
\* no job of it left, only with exactly max_retry_attempts recorded delivery attempts, all of them
\* unsuccessful: never with fewer, never with more.
C18_FailedAfterExactlyMaxAttempts ==
    \A n \in Ntfs :
        (notifications[n].status = "FAILED" /\ Settled(n)
            /\ ProviderAlwaysFailed(n))
            => /\ Cardinality(AttemptsOf(n)) = notifications[n].max_retry_attempts
               /\ \A i \in AttemptsOf(n) : delivery_attempts[i].status = "failed"

\* the worker is about to decide the status after a cycle whose last provider
\* send failed: the primary failed and the fallback failed or there was none
CycleEndsInFailure ==
    /\ worker.pc = "deciding"
    /\ worker.result = "error"
    /\ worker.send_result = "failure"
    /\ notifications[worker.id].type = "email"

\* C19: the step that decides the status after a failed cycle increments
\* retry_attempt by exactly one and sets Retrying if the new retry_attempt
\* is below max_retry_attempts, Failed otherwise.
C19_FailedCycleCountsARetry ==
    [][(CycleEndsInFailure /\ worker'.pc = "idle") =>
          LET before == notifications[worker.id]
              after == notifications'[worker.id]
          IN  /\ after.retry_attempt = before.retry_attempt + 1
              /\ after.status =
                    IF after.retry_attempt < before.max_retry_attempts
                    THEN "RETRYING" ELSE "FAILED"]_vars

\* C20: whenever the status of a notification is about to be decided, or no
\* job of it is running, every send made for it (primary provider, fallback
\* provider or live emit) has its delivery attempt recorded and nothing else
\* is recorded: there are as many recorded attempts as sends.
C20_OneAttemptPerSend ==
    \A n \in Ntfs :
        (worker.id # n \/ worker.pc = "deciding")
            => Cardinality(AttemptsOf(n)) = Cardinality(SendsOf(n))

\* the delivery attempts of one notification, in the order they were created
AttemptRows(n) ==
    LET OfN(r) == r.notification_id = n
    IN  SelectSeq(delivery_attempts, OfN)

\* C21: the delivery attempts of one notification carry the attempt numbers
\* 1, 2, 3, ... in the order they were created, no number twice, whichever
\* send (primary, fallback, live) and whichever processing cycle made them.
C21_AttemptNumbersCountUp ==
    \A n \in Ntfs :
        \A j \in 1..Len(AttemptRows(n)) : AttemptRows(n)[j].attempt_number = j

\* the order of preference as ranks: 1 a primary provider that covers the
\* load when it is at most 5, 2 a bulk-capable provider, 3 a provider that
\* covers the load, 4 not eligible; Within says whether a bulk-capable
\* provider must cover the load too
PreferenceRank(p, n, Within) ==
    IF n <= 5 /\ p.is_primary /\ n <= p.max_recipients THEN 1
    ELSE IF p.is_bulk /\ (Within => n <= p.max_recipients) THEN 2
    ELSE IF n <= p.max_recipients THEN 3
    ELSE 4

\* the earliest provider of the best rank, if any provider is eligible
PreferredProvider(providers, n, Within) ==
    LET eligible == {i \in 1..Len(providers) :
                        PreferenceRank(providers[i], n, Within) < 4}
    IN  IF eligible = {} THEN NoProvider
        ELSE providers[CHOOSE i \in eligible : \A j \in eligible :
                \/ PreferenceRank(providers[i], n, Within)
                      < PreferenceRank(providers[j], n, Within)
                \/ /\ PreferenceRank(providers[i], n, Within)
                        = PreferenceRank(providers[j], n, Within)
                   /\ i <= j]

\* C22: the provider selected for n recipients is the one the order of
\* preference gives: a primary provider covering n when n <= 5, otherwise a
\* provider flagged bulk-capable, otherwise any provider covering n,
\* otherwise none.
C22_SelectionFollowsPreference ==
    selection.pc = "answered"
        => selection.provider
              = PreferredProvider(selection.providers,
                                  selection.recipient_count, FALSE)

\* C22 as it holds: the same order of preference, a bulk-capable provider
\* being taken only if its max_recipients covers n.
C22_SelectionFollowsPreferenceWithinCapacity ==
    selection.pc = "answered"
        => selection.provider
              = PreferredProvider(selection.providers,
                                  selection.recipient_count, TRUE)

\* a lookup passed over a bulk-capable provider that the load exceeds and
\* returned a provider that is not bulk-capable
C22_Witness ==
    /\ selection.pc = "answered"
    /\ \E i \in 1..Len(selection.providers) :
          /\ selection.providers[i].is_bulk
          /\ selection.recipient_count > selection.providers[i].max_recipients
    /\ selection.provider # NoProvider
    /\ ~selection.provider.is_bulk
    /\ selection.recipient_count > 5

\* C23: when the lookup finds no provider for the recipient count, the
\* handler returns without a send, and the decision that follows takes the
\* notification to FAILED with the 'no provider' error recorded; no job is
\* queued for a retry and the status is never RETRYING on the way.
C23_NoProviderFailsDirectly ==
    [][/\ (worker.pc = "routing" /\ worker'.pc = "deciding"
              /\ worker'.error = "no_provider")
          => /\ sends_made' = sends_made
             /\ celery_queue' = celery_queue
             /\ notifications' = notifications
       /\ (worker.pc = "deciding" /\ worker.error = "no_provider")
          => /\ notifications[worker.id].status # "RETRYING"
             /\ (worker'.pc = "idle"
                    => /\ notifications'[worker.id].status = "FAILED"
                       /\ notifications'[worker.id].error_message
                             = "no_provider"
                       /\ sends_made' = sends_made
                       /\ celery_queue' = celery_queue)
             /\ (worker'.pc # "idle"
                    => notifications'[worker.id].status # "RETRYING")]_vars

\* a notification failed with the 'no provider' error and nothing was sent
\* for it
C23_Witness ==
    \E n \in Ntfs :
        /\ notifications[n].status = "FAILED"
        /\ notifications[n].error_message = "no_provider"
        /\ SendsOf(n) = {}
        /\ AttemptsOf(n) = {}
        /\ worker.pc = "idle"
        /\ celery_queue = <<>>

\* C24: when the primary send has failed and its attempt is recorded, the
\* handler goes on to a fallback send exactly when the manager holds another
\* provider, and the provider it then tries is never the one that just
\* failed; with the failed provider as the only one configured it returns.
C24_FallbackIsAnotherProvider ==
    [][(worker.pc = "recording" /\ worker.send_result = "failure"
            /\ worker' # worker)
          => LET others == {i \in 1..Len(worker.providers) :
                               worker.providers[i] # worker.provider}
             IN  IF others = {} THEN worker'.pc = "deciding"
                 ELSE /\ worker'.pc = "fallback_sending"
                      /\ worker'.provider # worker.provider]_vars

\* C25: a cancel request that is answered leaves a PENDING or RETRYING
\* notification CANCELLED and leaves a notification in any other status as it
\* was.
C25_CancelOnlyBeforeProcessing ==
    [][\A n \in Ntfs :
          (cancel_replies'[n] # cancel_replies[n]
              /\ notifications[n].status # "none")
            => IF notifications[n].status \in {"PENDING", "RETRYING"}
               THEN notifications'[n].status = "CANCELLED"
               ELSE notifications'[n].status = notifications[n].status]_vars

\* C26: a webhook task of an event that ends failed adds one to the
\* consecutive_failures of the endpoint, and one that ends in success sets
\* it back to zero.
C26_ConsecutiveFailuresCounted ==
    [][\A e \in WhEvents :
          (webhook_results'[e] # webhook_results[e]
              /\ webhook_endpoint.status # "none")
            => webhook_endpoint'.consecutive_failures
                 = IF webhook_results'[e].status = "failed"
                   THEN webhook_endpoint.consecutive_failures + 1
                   ELSE 0]_vars

\* every session the broadcast set out to reach that did not fail and is
\* still registered has been sent the event
OthersAreSentTo ==
    \A c \in broadcast.targets \ broadcast.failed :
        (\E u \in WsUsers : mgr_active[u] = c) => c \in broadcast.sent_to

\* the sessions the broadcast evicted are sessions it failed to send to
OnlyFailedEvicted == broadcast.evicted \subseteq broadcast.failed

\* C27: when a broadcast in which a send failed has ended, every session it
\* set out to reach that did not fail and is still registered has been sent
\* the event, and the sessions the broadcast evicted are sessions it failed
\* to send to.
C27_FailureBlocksNobodyElse ==
    (broadcast.pc \in {"done", "raised"} /\ broadcast.failed # {})
        => OthersAreSentTo /\ OnlyFailedEvicted

ErrorTexts ==
    {"missing_fields", "missing_client_id", "no_provider", "exception",
     "delivery_failed", "missing_content", "missing_target",
     "websocket_and_fallback_failed", "websocket_failed"}

FallbackConditions(success, has_online_users) ==
    (IF ~success THEN {"websocket_delivery_failed"} ELSE {})
    \cup (IF ~has_online_users THEN {"no_online_users"} ELSE {})

\* the reasons named in a recorded fallback_reason
RecordedReasons(reason) ==
    {r \in {"websocket_delivery_failed", "no_online_users"} : r = reason}

\* C30: when the email fallback of a websocket notification is run, the
\* fallback reason recorded names every condition that holds: the failed
\* live send, the room without an online member, or both.
C30_FallbackReasonNamesBoth ==
    [][(worker.pc = "ws_recording" /\ worker.id \in email_fallbacks'
            /\ worker'.pc = "deciding")
          => RecordedReasons(worker'.fallback_reason)
               = FallbackConditions(worker.send_result = "success",
                                    worker.has_online_users)]_vars

\* ------------------------------------------------------------------- C31
\* a step of a room event handler that takes effect: it sends to a room,
\* stores a message or changes a session's joined-room set
RoomEventTakesEffect ==
    /\ room_event' # room_event \/ room_events_handled' # room_events_handled
    /\ \/ room_emits' # room_emits
       \/ messages_saved' # messages_saved
       \/ user_rooms' # user_rooms

\* a handler passes its first block and goes on to the membership check
RoomEventAdmitted == room_event.pc = "idle" /\ room_event'.pc = "checking"

\* the session the event came from is registered under the user id the
\* handler carries
RegisteredAs(su, sid, user_id) ==
    \E i \in 1..Len(su) : su[i].sid = sid /\ su[i].user_id = user_id

\* C31: a room event (join_room, send_message, get_messages, typing,
\* mark_messages_read) takes effect only if the session it came from was
\* authenticated when the handler took it up and its user id has an active
\* membership of the room when the handler asks: a handler goes on to the
\* membership check only for a registered session, and only a handler whose
\* check found an active membership sends to the room, stores a message or
\* changes a joined-room set.
C31_RoomEventsNeedSessionAndMembership ==
    [][/\ RoomEventAdmitted =>
             RegisteredAs(session_users, room_event'.sid, room_event'.user_id)
       /\ RoomEventTakesEffect =>
             /\ room_event.pc = "checking"
             /\ <<room_event.room_id, room_event.user_id>> \in memberships]_vars

\* a join_room of a registered member took effect: the room was told and
\* the room is in the session's joined-room set
C31_Witness ==
    \E sid \in Sids :
        /\ <<"user_joined_room", "r1", sid>> \in room_emits
        /\ RegisteredAs(session_users, sid, "u1")
        /\ user_rooms[sid] = {"r1"}

\* ------------------------------------------------------------------- C32
\* endpoint c ends its teardown in this step while a newer connection is
\* the one registered under c's user id, open and with its client present
TeardownOfEvicted(c) ==
    /\ epc[c] # "done"
    /\ epc'[c] = "done"
    /\ ws_user[c] # Missing
    /\ mgr_active[ws_user[c]] \notin {NoConn, c}
    /\ ~peer_gone[mgr_active[ws_user[c]]]
    /\ app_state[mgr_active[ws_user[c]]] = "open"

\* C32: the teardown of a session that a newer session of the same identity
\* has evicted leaves the newer session untouched: when the old endpoint's
\* disconnect handling has run, the newer connection is still registered
\* under the user id and the server has not closed it.
C32_TeardownOfEvictedSparesNewer ==
    [][\A c \in Conns :
          TeardownOfEvicted(c) =>
             /\ mgr_active'[ws_user[c]] = mgr_active[ws_user[c]]
             /\ app_state'[mgr_active[ws_user[c]]] = app_state[mgr_active[ws_user[c]]]]_vars

\* ------------------------------------------------------------------- C33
TerminalStatuses == {"SENT", "FAILED", "CANCELLED"}

\* a step of the job the worker is running, for a row that is already in a
\* terminal status
JobStepOnTerminalRow ==
    /\ worker.pc # "idle"
    /\ worker' # worker
    /\ notifications[worker.id].status \in TerminalStatuses

\* C33: executing the processing job of a notification that is already
\* Sent, Failed or Cancelled again performs no provider send, records no
\* DeliveryAttempt and leaves the status as it is.
C33_ReexecutionIsIdempotent ==
    [][JobStepOnTerminalRow =>
          /\ sends_made' = sends_made
          /\ delivery_attempts' = delivery_attempts
          /\ notifications' = notifications]_vars

SeqRange(q) == {q[i] : i \in 1..Len(q)}

ClientOf(su, sid) == su[SessionGet(su, sid)].client_id

\* a presence reply is made in this step and names only users that are
\* online in the client of the session it goes to
ReplyStaysInTenant ==
    presence_reply' # presence_reply =>
        SeqRange(presence_reply'.users) \subseteq
            {info.user_id : info \in SeqRange(online_users_by_client(
                 session_users, ClientOf(session_users, presence_reply'.sid)))}

\* a user_online announcement is made in this step (connect line 101) and
\* reaches, among the sessions whose connect has returned, only those of
\* the announced user's client
AnnouncementStaysInTenant ==
    \A sid \in Sids :
        (cpc[sid] = "joining" /\ cpc'[sid] = "notifying") =>
            \A t \in emit_to_all(sio_conn) :
                (Registered(t) /\ cpc[t] = "done") =>
                    ClientOf(session_users, t) = AuthClient(auth[sid])

\* C35: presence never crosses tenants: an online_users or user_status reply
\* names only users online in the requesting session's client, and a
\* user_online announcement reaches only sessions of the same client.
C35_PresenceStaysInTenant ==
    [][ReplyStaysInTenant /\ AnnouncementStaysInTenant]_vars

\* ------------------------------------------------------------------- C36
\* the identity a scoped key was issued for
ScopedIdentity(a) ==
    connection_key(verify_scoped_api_key(a.api_key).client,
                   verify_scoped_api_key(a.api_key).user_id)

\* a step of the connect handler of a session that came with a scoped key
ScopedConnectStep(sid) == AuthScoped(auth[sid]) /\ cpc'[sid] # cpc[sid]

\* the entries of session_users that carry the sid
EntriesOf(su, sid) == {su[i] : i \in {j \in 1..Len(su) : su[j].sid = sid}}

\* C36: a connection that authenticates with a scoped key is registered
\* under the key's own user id whatever user_id it supplied: its connect
\* handler stores the session under the key's identity only, and the only
\* sessions it removes or evicts are sessions of that identity.
C36_ScopedKeyBindsUser ==
    [][\A sid \in Sids :
          ScopedConnectStep(sid) =>
             /\ \A info \in EntriesOf(session_users', sid) :
                   /\ info.connection_key = ScopedIdentity(auth[sid])
                   /\ info.user_id = verify_scoped_api_key(auth[sid].api_key).user_id
             /\ \A k \in ConnKeys :
                   active_connections'[k] # active_connections[k]
                      => k = ScopedIdentity(auth[sid])
             /\ \A t \in Sids \ {sid} :
                   \A info \in EntriesOf(session_users, t) :
                      (t \notin SessionSids(session_users') \/ sio_conn'[t] # sio_conn[t])
                         => info.connection_key = ScopedIdentity(auth[sid])]_vars

\* a session that supplied another user_id with its scoped key is registered
\* under the key's user, and a session has been evicted
C36_Witness ==
    \E sid \in Sids :
        /\ AuthScoped(auth[sid])
        /\ auth[sid].user_id # verify_scoped_api_key(auth[sid].api_key).user_id
        /\ \E info \in EntriesOf(session_users, sid) : info.is_scoped
        /\ \E t \in Sids \ {sid} :
              sio_conn[t] = "server_closed" /\ cpc[t] # "rejected"

\* ------------------------------------------------------------------- C37
UserRoomsSids == {s \in Sids : user_rooms[s] # Absent}

\* session_users and user_rooms have the same session ids
SameSessionIds == SessionSids(session_users) = UserRoomsSids

\* every session id stored in active_connections is a key of session_users
ActiveAreSessions ==
    \A k \in ConnKeys :
        active_connections[k] # NoSid =>
            active_connections[k] \in SessionSids(session_users)

\* every session of session_users is the one active_connections maps its
\* connection_key to
SessionsAreActive ==
    \A i \in 1..Len(session_users) :
        active_connections[session_users[i].connection_key] = session_users[i].sid

\* C37: in every reachable state of the Socket.IO registry the three maps
\* agree: session_users and user_rooms have the same session ids, every
\* session id in active_connections is a key of session_users, and every
\* session of session_users is the one its connection_key maps to.
C37_RegistryMapsAgree ==
    SameSessionIds /\ ActiveAreSessions /\ SessionsAreActive

BroadcastNeverRaises == broadcast.pc # "raised"

\* a session of the broadcast's targets that is registered, open and whose
\* client is there when the broadcast has ended
StayedConnected(c) ==
    /\ c \in broadcast.targets
    /\ \E u \in WsUsers : mgr_active[u] = c
    /\ app_state[c] = "open"
    /\ ~peer_gone[c]

\* every session that stayed connected for the whole broadcast was sent the
\* event
StayersAreSentTo ==
    broadcast.pc \in {"done", "raised"}
        => \A c \in Conns : StayedConnected(c) => c \in broadcast.sent_to

\* C39: a broadcast_to_all that runs while other users connect and
\* disconnect ends without an exception, and every session that stayed
\* connected for the whole broadcast has been sent the event.
C39_BroadcastSurvivesMapChanges ==
    BroadcastNeverRaises /\ StayersAreSentTo

\* ------------------------------------------------------------------- C40
\* h is queued on the lock
Queued(h) == \E i \in 1..Len(lock_waiters) : lock_waiters[i] = h

\* the lock, once taken by an endpoint or by the broadcast, becomes free
\* again
LockIsReleased == (cleanup_lock # NoConn) ~> (cleanup_lock = NoConn)

\* manager.connect, queued on the lock or holding it, returns to the endpoint
\* that called it
ConnectReturns ==
    \A c \in Conns :
        (epc[c] \in {"connect_want", "connect_cancel"})
            ~> (epc[c] \notin {"connect_want", "connect_cancel"})

\* C40: every operation of the manager that takes the cleanup lock (connect,
\* disconnect_async, the cleanup started by ping and by broadcast_to_all)
\* releases it again, and a connect that has been called is not kept waiting
\* for ever.
C40_LockNeverHeldForever == LockIsReleased /\ ConnectReturns

\* a connect queued on the lock behind the cleanup of the broadcast, which
\* holds it while it awaits a cancelled receive task
C40_Witness ==
    /\ cleanup_lock = Broadcaster
    /\ broadcast.pc = "cleanup_cancel"
    /\ \E c \in Conns :
          /\ epc[c] = "connect_want"
          /\ Queued(c)

====
